---- MODULE Spec2Model ----
(***************************************************************************)
(* A model of asset-optimizer's orchestration engine (index.ts):           *)
(* configure -> createOptimizationContext -> scanInputFolder, i.e.         *)
(* ensureInputFolder, traverseDirectory (pass 1, collection),              *)
(* prepareOutputFolder (cleanup), traverseDirectory (pass 2, processing),  *)
(* processAsset / copyAsset per file, and buildOptimizeResult.             *)
(*                                                                         *)
(* Every await on a filesystem call or on an encoder adapter is a          *)
(* suspension point: the code between two awaits is one action.  The       *)
(* filesystem is shared by every invocation; everything else lives in the  *)
(* per-invocation context.                                                 *)
(***************************************************************************)
EXTENDS Integers, Sequences, FiniteSets, Bags, TLC

(***************************************************************************)
(* Bounds of the model.                                                    *)
(***************************************************************************)
\* longest buffer an encoder adapter may return
MaxLen == 1

\* most files an input tree holds before the first invocation
MaxFiles == 2

\* most files of that tree when two invocations overlap in time
MaxOverlapFiles == 1

\* most files of that tree when the command line runs
MaxCliFiles == 1

\* most argument groups on a command line
MaxGroups == 3

\* byte values
Byte == {0, 1}

RECURSIVE SeqsUpTo(_, _)
SeqsUpTo(S, n) ==
  IF n = 0 THEN {<<>>}
  ELSE LET shorter == SeqsUpTo(S, n - 1)
       IN  shorter \cup {Append(s, x) : s \in {t \in shorter : Len(t) = n - 1}, x \in S}

\* Buffer values
Buffers == SeqsUpTo(Byte, MaxLen)

\* the two invocations of configure a caller may make
Runs == {"first", "second"}

(***************************************************************************)
(* Paths (node:path).  A resolved path is the sequence of its components.  *)
(***************************************************************************)
\* path.resolve(process.cwd(), arg), for the argument strings of the model
Resolve(arg) ==
  CASE arg = "in"       -> <<"in">>
    [] arg = "out"      -> <<"out">>
    [] arg = "./in"     -> <<"in">>
    [] arg = "in/sub"   -> <<"in", "sub">>
    [] arg = "in/b.txt" -> <<"in", "b.txt">>
    [] arg = ""         -> <<>>
    [] OTHER            -> <<arg>>

Join(dir, rel) == dir \o rel

Dirname(p) == SubSeq(p, 1, Len(p) - 1)

Basename(p) == p[Len(p)]

\* path.relative(from, to) for a path `to` below `from`
Relative(from, to) == SubSeq(to, Len(from) + 1, Len(to))

\* path.extname(name).slice(1), for the entry names of the model
ExtName(name) ==
  CASE name = "a.json" -> "json"
    [] name = "b.txt"  -> "txt"
    [] name = "C.SVG"  -> "SVG"
    [] name = "d.png"  -> "png"
    [] name = "e.png"  -> "png"
    [] name = "f.avif" -> "avif"
    [] OTHER           -> ""

\* String.prototype.toLowerCase, for the extensions of the model
ToLowerCase(s) ==
  CASE s \in {"PNG", "Png"}   -> "png"
    [] s \in {"WEBP", "WebP"} -> "webp"
    [] s \in {"JPG", "Jpg"}   -> "jpg"
    [] s \in {"JPEG", "Jpeg"} -> "jpeg"
    [] s \in {"AVIF", "Avif"} -> "avif"
    [] s \in {"SVG", "Svg"}   -> "svg"
    [] s \in {"JSON", "Json"} -> "json"
    [] s \in {"MP4", "Mp4"}   -> "mp4"
    [] s \in {"WEBM", "WebM"} -> "webm"
    [] s \in {"TXT", "Txt"}   -> "txt"
    [] OTHER                  -> s

(***************************************************************************)
(* The format registry (formats.ts).                                       *)
(***************************************************************************)
IMAGE_FORMATS == <<"png", "webp", "jpg", "jpeg", "avif">>
VECTOR_FORMATS == <<"svg">>
DATA_FORMATS == <<"json">>
VIDEO_FORMATS == <<"mp4", "webm">>

MapCategory(formats, category) ==
  [i \in 1..Len(formats) |-> [extension |-> formats[i], category |-> category]]

FORMAT_DESCRIPTORS ==
  MapCategory(IMAGE_FORMATS, "image") \o MapCategory(VECTOR_FORMATS, "vector")
    \o MapCategory(DATA_FORMATS, "data") \o MapCategory(VIDEO_FORMATS, "video")

\* `undefined`, the result of a failed Map lookup
Undefined == [extension |-> "", category |-> "none"]

getDescriptorForExtension(extension) ==
  LET hits == {i \in 1..Len(FORMAT_DESCRIPTORS) : FORMAT_DESCRIPTORS[i].extension = extension}
  IN  IF hits = {} THEN Undefined
      ELSE FORMAT_DESCRIPTORS[CHOOSE i \in hits : \A j \in hits : j <= i]

\* a convenience that knows the image formats only
isSupportedFormatImages(extension) ==
  \E i \in 1..Len(IMAGE_FORMATS) : IMAGE_FORMATS[i] = extension

isSupportedFormat(extension) ==
  \E i \in 1..Len(FORMAT_DESCRIPTORS) : FORMAT_DESCRIPTORS[i].extension = extension

\* determineFormat: Undefined stands for either of its two throws
determineFormat(file) ==
  LET extension == ToLowerCase(ExtName(Basename(file)))
  IN  IF extension = "" THEN Undefined
      ELSE getDescriptorForExtension(extension)

(***************************************************************************)
(* State.                                                                  *)
(***************************************************************************)
VARIABLES
  files,      \* the filesystem's regular files: resolved path -> content
  dirs,       \* the filesystem's directories
  pc,         \* per invocation: where configure / scanInputFolder stands
  ctx,        \* per invocation: its OptimizationContext
  pending,    \* per invocation: traverseDirectory calls awaiting fs.readdir
  tasks,      \* per invocation: entry path -> the state of its processAsset call
  unlinkLeft, \* per invocation: scanned paths the cleanup loop has yet to visit
  ops,        \* per invocation: the bag of filesystem calls it has issued
  result,     \* per invocation: the OptimizeResult it returned (at most one)
  error,      \* per invocation: the message of the error it threw ("" if none)
  snapshot,   \* per invocation: the regular files as they were when it was called
  returnedBefore,
              \* per invocation: the invocations that had returned when it was called
  warned,     \* per invocation: the warnings handed to onWarning and to console.warn
  cli,        \* the command-line process: its arguments, terminal and progress
  registry,   \* a caller of the format registry: its extension and the answers it got
  adapter     \* a caller of one encoder adapter: its file, the codecs and how it ended

vars ==
  <<files, dirs, pc, ctx, pending, tasks, unlinkLeft, ops, result, error, snapshot,
    returnedBefore, warned, cli, registry, adapter>>

(***************************************************************************)
(* The filesystem (node:fs promises).                                      *)
(***************************************************************************)
Prefixes(p) == {SubSeq(p, 1, n) : n \in 0..Len(p)}

IsChild(p, dir) == Len(p) = Len(dir) + 1 /\ SubSeq(p, 1, Len(dir)) = dir

IsFile(p) == p \in DOMAIN files

\* fs.readdir(dir, {withFileTypes: true}): the entries of dir
ReadDirEntries(dir) == {p \in (DOMAIN files) \cup dirs : IsChild(p, dir)}

\* fs.mkdir(dir, {recursive: true})
MkdirRecursive(dir) == dirs \cup Prefixes(dir)

\* fs.writeFile(p, data) and the destination side of fs.copyFile
\* the file opened for appending
WriteToAppending(p, data) ==
  [q \in (DOMAIN files) \cup {p} |->
     IF q = p THEN (IF q \in DOMAIN files THEN files[q] \o data ELSE data) ELSE files[q]]

WriteTo(p, data) == [q \in (DOMAIN files) \cup {p} |-> IF q = p THEN data ELSE files[q]]

\* fs.unlink(p) when p is a regular file
Unlinked(p) == [q \in (DOMAIN files) \ {p} |-> files[q]]

\* a filesystem call as it is logged: src is used by copyFile, data by writeFile
Op(name, path, src, data) == [op |-> name, path |-> path, src |-> src, data |-> data]

Logged(r, op) == [ops EXCEPT ![r] = @ (+) SetToBag({op})]

(***************************************************************************)
(* The optimization context.                                               *)
(***************************************************************************)
\* a JavaScript number of the model: an integer, or NaN
Num(v) == [nan |-> FALSE, v |-> v]

NaN == [nan |-> TRUE, v |-> 0]

IsFinite(n) == ~n.nan

MathMax(a, b) == IF a.nan \/ b.nan THEN NaN ELSE IF a.v >= b.v THEN a ELSE b

MathMin(a, b) == IF a.nan \/ b.nan THEN NaN ELSE IF a.v <= b.v THEN a ELSE b

clamp(value, min, max) == MathMin(MathMax(value, min), max)

DEFAULT_OPTIONS == [imageQuality |-> Num(80), verbose |-> FALSE, onWarning |-> FALSE]

\* OptimizeOptions {}: an optional member is a sequence of length 0 or 1, and
\* onWarning tells whether a function was supplied
NoOptions == [imageQuality |-> <<>>, verbose |-> <<>>, onWarning |-> FALSE]

resolveOptions(opts) ==
  [imageQuality |->
     clamp(IF opts.imageQuality = <<>> THEN DEFAULT_OPTIONS.imageQuality
           ELSE opts.imageQuality[1], Num(1), Num(100)),
   verbose |-> IF opts.verbose = <<>> THEN DEFAULT_OPTIONS.verbose ELSE opts.verbose[1],
   onWarning |-> opts.onWarning]

\* the context of an invocation that has not been made
NoContext ==
  [providedInput |-> "", providedOutput |-> "", inputFolder |-> <<>>, outputFolder |-> <<>>,
   isSelfReplace |-> FALSE, options |-> DEFAULT_OPTIONS,
   totalOriginalSize |-> 0, totalOptimizedSize |-> 0,
   scannedFiles |-> {}, processedFiles |-> 0, optimizedFiles |-> 0,
   warningMessages |-> <<>>]

createOptimizationContext(input, output, options) ==
  LET inputFolder == Resolve(input)
      outputFolder == Resolve(output)
  IN  [providedInput |-> input, providedOutput |-> output,
       inputFolder |-> inputFolder, outputFolder |-> outputFolder,
       isSelfReplace |-> (inputFolder = outputFolder), options |-> options,
       totalOriginalSize |-> 0, totalOptimizedSize |-> 0,
       scannedFiles |-> {}, processedFiles |-> 0, optimizedFiles |-> 0,
       warningMessages |-> <<>>]

\* recordWarning: warningMessages is a Set, kept here in insertion order
recordWarning(context, message) ==
  IF \E i \in 1..Len(context.warningMessages) : context.warningMessages[i] = message
  THEN context
  ELSE [context EXCEPT !.warningMessages = Append(@, message)]

\* the sinks without the check for a message already recorded
DeliveredEvery(context, log, message) ==
  IF context.options.onWarning
  THEN [log EXCEPT !.sink = Append(@, message)]
  ELSE [log EXCEPT !.console = Append(@, message)]

\* recordWarning, lines 986-994: what reaches options.onWarning and console.warn
Delivered(context, log, message) ==
  IF \E i \in 1..Len(context.warningMessages) : context.warningMessages[i] = message
  THEN log
  ELSE IF context.options.onWarning
  THEN [log EXCEPT !.sink = Append(@, message)]
  ELSE [log EXCEPT !.console = Append(@, message)]

RECURSIVE DeliveredAll(_, _, _)
DeliveredAll(context, log, messages) ==
  IF messages = <<>> THEN log
  ELSE DeliveredAll(recordWarning(context, Head(messages)),
                    Delivered(context, log, Head(messages)), Tail(messages))

NoWarnings ==
  [sink |-> <<>>, console |-> <<>>, trace |-> EmptyBag, visits |-> EmptyBag,
   refused |-> {}]

\* the callback of traverseDirectory's entries.map ran for these file entries
Visit(isCollection, filePath) == [isCollection |-> isCollection, path |-> filePath]

Visited(log, isCollection, fileEntries) ==
  [log EXCEPT !.visits = @ (+) SetToBag({Visit(isCollection, p) : p \in fileEntries})]

\* one line of the diagnostic trace: console.log under options.verbose
Line(text, path) == [text |-> text, path |-> path]

\* if (context.options.verbose) { console.log(...) }
Traced(context, log, lines) ==
  IF context.options.verbose THEN [log EXCEPT !.trace = @ (+) lines] ELSE log

RECURSIVE recordWarnings(_, _)
recordWarnings(context, messages) ==
  IF messages = <<>> THEN context
  ELSE recordWarnings(recordWarning(context, Head(messages)), Tail(messages))

\* the percentage computed without the guard on a zero total: 0 / 0
SavingsPercentUnguarded(totalSavings, totalOriginalSize) ==
  [num |-> totalSavings * 100, den |-> totalOriginalSize]

\* totalSavingsPercent, an exact fraction (the code computes a float)
SavingsPercent(totalSavings, totalOriginalSize) ==
  IF totalOriginalSize > 0
  THEN [num |-> totalSavings * 100, den |-> totalOriginalSize]
  ELSE [num |-> 0, den |-> 1]

buildOptimizeResult(context) ==
  LET totalSavings == context.totalOriginalSize - context.totalOptimizedSize
  IN  [input |-> context.providedInput,
       output |-> context.providedOutput,
       inputDirectory |-> context.inputFolder,
       outputDirectory |-> context.outputFolder,
       totalOriginalSize |-> context.totalOriginalSize,
       totalOptimizedSize |-> context.totalOptimizedSize,
       totalSavings |-> totalSavings,
       totalSavingsPercent |-> SavingsPercent(totalSavings, context.totalOriginalSize),
       filesScanned |-> Cardinality(context.scannedFiles),
       filesProcessed |-> context.processedFiles,
       filesOptimized |-> context.optimizedFiles,
       warnings |-> context.warningMessages,
       summary |-> [processedLine |-> <<context.processedFiles, context.optimizedFiles>>,
                    destinationLine |-> <<context.providedInput, context.providedOutput>>]]

(***************************************************************************)
(* Encoder adapters.  The codecs are external: an adapter call ends in one *)
(* of the outcomes its code allows, chosen nondeterministically.           *)
(***************************************************************************)
\* the texts of the errors the codecs and JSON.parse raise
ErrorDetails == {"error-1", "error-2"}

\* a warning text: what it reports and the file path, format and error text it
\* holds ("" or <<>> for the parts the text does not have)
Message(kind, path, format, detail) ==
  [kind |-> kind, path |-> path, format |-> format, detail |-> detail]

Returned(data, warnings) == [kind |-> "return", data |-> data, warnings |-> warnings]

Thrown == [kind |-> "throw", data |-> <<>>, warnings |-> <<>>]

\* a catch branch that hands back an empty buffer instead of the file
optimizeDataAssetDropsInput(rel, orig) ==
  {Returned(b, <<>>) : b \in Buffers}
    \cup {Returned(<<>>, <<Message("json-failed", rel, "", d)>>) : d \in ErrorDetails}

\* optimizeDataAsset: JSON.parse + JSON.stringify, or the catch branch
optimizeDataAsset(rel, orig) ==
  {Returned(b, <<>>) : b \in Buffers}
    \cup {Returned(orig, <<Message("json-failed", rel, "", d)>>) : d \in ErrorDetails}

\* optimizeVectorAsset: svgo's result, a result without data, or svgo throwing
optimizeVectorAsset(rel, orig) ==
  {Returned(b, <<>>) : b \in Buffers}
    \cup {Returned(orig, <<Message("svg-failed", rel, "", "")>>)}
    \cup {Thrown}

\* what one call of a codec does: it answers with a buffer, or it throws
Encoded(data) == [ok |-> TRUE, data |-> data, detail |-> ""]

Failing(detail) == [ok |-> FALSE, data |-> <<>>, detail |-> detail]

Encodings == {Encoded(b) : b \in Buffers} \cup {Failing(d) : d \in ErrorDetails}

\* sharp as one compressImage call finds it: whether sharp(data) throws, what
\* the encoder of the format does and what the webp encoder of the fallback does
Encoders ==
  [sharp : {"ok", "throws"}, detail : ErrorDetails, first : Encodings, retry : Encodings]

\* an adapter call that has ended: how, the bytes and warnings it hands back and
\* the calls it made on the way
Ended(kind, data, warnings, steps) ==
  [kind |-> kind, data |-> data, warnings |-> warnings, steps |-> steps]

\* one encoder call: image.png / jpeg / avif / webp ({quality, ...}).toBuffer()
Encode(encoder, quality) == [call |-> encoder, quality |-> quality]

\* the encoder compressImage picks for a format, lines 896-939
EncoderOf(format) ==
  CASE format = "png" -> "png"
    [] format \in {"jpg", "jpeg"} -> "jpeg"
    [] format = "avif" -> "avif"
    [] OTHER -> "webp"

\* an avif branch whose catch gives up instead of trying webp
compressImageInNoRetry(orig, format, quality, encoders) ==
  IF encoders.sharp = "throws"
  THEN Ended("return", orig,
             <<Message("compress-failed", <<>>, format, encoders.detail)>>, <<>>)
  ELSE IF encoders.first.ok
  THEN Ended("return", encoders.first.data, <<>>, <<Encode(EncoderOf(format), quality)>>)
  ELSE Ended("return", orig,
             <<Message("compress-failed", <<>>, format, encoders.first.detail)>>,
             <<Encode(EncoderOf(format), quality)>>)

\* compressImage with the codecs it finds: the format's encoder; for avif the
\* warning and the webp encoder when it throws; the outer catch
compressImageIn(orig, format, quality, encoders) ==
  LET first == Encode(EncoderOf(format), quality)
      fallback == Message("avif-fallback", <<>>, "", encoders.first.detail)
  IN  IF encoders.sharp = "throws"
      THEN Ended("return", orig,
                 <<Message("compress-failed", <<>>, format, encoders.detail)>>, <<>>)
      ELSE IF encoders.first.ok
      THEN Ended("return", encoders.first.data, <<>>, <<first>>)
      ELSE IF format # "avif"
      THEN Ended("return", orig,
                 <<Message("compress-failed", <<>>, format, encoders.first.detail)>>,
                 <<first>>)
      ELSE IF encoders.retry.ok
      THEN Ended("return", encoders.retry.data, <<fallback>>,
                 <<first, Encode("webp", quality)>>)
      ELSE Ended("return", orig,
                 <<fallback, Message("compress-failed", <<>>, format, encoders.retry.detail)>>,
                 <<first, Encode("webp", quality)>>)

\* compressImage: every outcome the codecs allow
compressImage(orig, format) ==
  {Returned(o.data, o.warnings) :
     o \in {compressImageIn(orig, format, Num(80), e) : e \in Encoders}}

\* optimizeImageAsset: the buffer compressImage returns
optimizeImageAsset(rel, orig, format) == compressImage(orig, format)

\* the runtime as one optimizeVideoAsset call finds it: whether VideoEncoder and
\* VideoDecoder are functions, what import('mediabunny') gives, what building the
\* pipeline, Conversion.init and conversion.execute do, and output.target.buffer
\* (a sequence of length 0 when it is undefined)
Runtimes ==
  [videoEncoder : BOOLEAN,
   videoDecoder : BOOLEAN,
   module : {"throws", "undefined", "incomplete", "complete"},
   pipeline : {"throws", "ok"},
   init : {"throws", "null", "invalid", "valid"},
   execute : {"throws", "ok"},
   buffer : {<<>>} \cup {<<b>> : b \in Buffers},
   detail : ErrorDetails]

\* hasWebCodecs
hasWebCodecs(runtime) == runtime.videoEncoder /\ runtime.videoDecoder

\* an adapter that loads the module before it looks at the runtime
optimizeVideoAssetInLoadsFirst(rel, orig, runtime) ==
  IF runtime.module = "throws"
  THEN Ended("return", orig, <<Message("no-mediabunny", rel, "", runtime.detail)>>,
             <<"import">>)
  ELSE Ended("return", orig, <<Message("no-webcodecs", rel, "", "")>>,
             <<"import", "hasWebCodecs">>)

\* optimizeVideoAsset in the runtime it finds, lines 795-885
optimizeVideoAssetIn(rel, orig, runtime) ==
  LET skipped(kind, detail, steps) ==
        Ended("return", orig, <<Message(kind, rel, "", detail)>>, steps)
  IN  IF ~hasWebCodecs(runtime)
      THEN skipped("no-webcodecs", "", <<"hasWebCodecs">>)
      ELSE IF runtime.module = "throws"
      THEN skipped("no-mediabunny", runtime.detail, <<"hasWebCodecs", "import">>)
      ELSE IF runtime.module # "complete"
      THEN skipped("missing-apis", "", <<"hasWebCodecs", "import">>)
      ELSE IF runtime.pipeline = "throws"
      THEN skipped("video-failed", runtime.detail, <<"hasWebCodecs", "import", "pipeline">>)
      ELSE IF runtime.init = "throws"
      THEN skipped("video-failed", runtime.detail,
                   <<"hasWebCodecs", "import", "pipeline", "init">>)
      ELSE IF runtime.init # "valid"
      THEN skipped("invalid-conversion", "",
                   <<"hasWebCodecs", "import", "pipeline", "init">>)
      ELSE IF runtime.execute = "throws"
      THEN skipped("video-failed", runtime.detail,
                   <<"hasWebCodecs", "import", "pipeline", "init", "execute">>)
      ELSE IF runtime.buffer = <<>>
      THEN skipped("no-output", "",
                   <<"hasWebCodecs", "import", "pipeline", "init", "execute">>)
      ELSE Ended("return", runtime.buffer[1], <<>>,
                 <<"hasWebCodecs", "import", "pipeline", "init", "execute">>)

\* optimizeVideoAsset: every outcome the runtime allows
optimizeVideoAsset(rel, orig) ==
  {Returned(o.data, o.warnings) :
     o \in {optimizeVideoAssetIn(rel, orig, runtime) : runtime \in Runtimes}}

\* optimizeAsset: dispatch by category
optimizeAsset(descriptor, rel, orig) ==
  CASE descriptor.category = "image"  -> optimizeImageAsset(rel, orig, descriptor.extension)
    [] descriptor.category = "vector" -> optimizeVectorAsset(rel, orig)
    [] descriptor.category = "data"   -> optimizeDataAsset(rel, orig)
    [] descriptor.category = "video"  -> optimizeVideoAsset(rel, orig)
    [] OTHER                          -> {Returned(orig, <<>>)}

(***************************************************************************)
(* Per-file processing.                                                    *)
(***************************************************************************)
\* a processAsset call: where it stands, the bytes read, the adapter's candidate and
\* warnings, and the asset chosen by the size gate
Task(at, orig, cand, opt, warnings) ==
  [pc |-> at, orig |-> orig, cand |-> cand, opt |-> opt, warnings |-> warnings]

\* a gate that lets an equal-sized candidate through
KeepsOriginalLoose(optimizedSize, originalSize) == optimizedSize > originalSize

\* processAsset, line 677: the candidate is discarded
KeepsOriginal(optimizedSize, originalSize) == optimizedSize >= originalSize

\* no gate: the candidate is always written
SizeGateOff(orig, cand) == cand

\* the asset processAsset hands to writeOptimizedAsset
SizeGate(orig, cand) == IF KeepsOriginal(Len(cand), Len(orig)) THEN orig ELSE cand

\* copyAsset without its self-replace check
copyAssetStartAlways(context) == "copyMkdir"

\* copyAsset up to its first await
copyAssetStart(context) == IF context.isSelfReplace THEN "skipped" ELSE "copyMkdir"

\* processAsset up to its first await
processAssetStart(context, filePath) ==
  IF determineFormat(filePath) = Undefined
  THEN Task(copyAssetStart(context), <<>>, <<>>, <<>>, <<>>)
  ELSE Task("read", <<>>, <<>>, <<>>, <<>>)

\* the counter of processed files bumped without the sizes
AggregatedCountOnly(context, originalSize, optimizedSize) ==
  [context EXCEPT !.processedFiles = @ + 1]

\* totals that are only kept by a run that does not trace
AggregatedWhenQuiet(context, originalSize, optimizedSize) ==
  IF context.options.verbose THEN context
  ELSE [context EXCEPT !.totalOriginalSize = @ + originalSize,
                       !.totalOptimizedSize = @ + optimizedSize,
                       !.processedFiles = @ + 1,
                       !.optimizedFiles = IF optimizedSize < originalSize THEN @ + 1 ELSE @]

\* processAsset, lines 684-689
Aggregated(context, originalSize, optimizedSize) ==
  [context EXCEPT !.totalOriginalSize = @ + originalSize,
                  !.totalOptimizedSize = @ + optimizedSize,
                  !.processedFiles = @ + 1,
                  !.optimizedFiles = IF optimizedSize < originalSize THEN @ + 1 ELSE @]

\* a destination built from the file's name instead of its relative path
DestinationOfName(context, filePath) == Join(context.outputFolder, <<Basename(filePath)>>)

\* writeOptimizedAsset, line 952, and copyAsset, line 968
Destination(context, filePath) ==
  Join(context.outputFolder, Relative(context.inputFolder, filePath))

\* a per-file promise that has resolved
Resolved == {"done", "skipped"}

\* a per-file task throws: Promise.all rejects, and with it configure
Rejected(r, message) ==
  /\ pc' = [pc EXCEPT ![r] = IF @ = "pass2" THEN "failed" ELSE @]
  /\ error' = [error EXCEPT ![r] = IF pc[r] = "pass2" THEN message ELSE @]

\* module-level state: one context shared by every invocation
StoreShared(r, context) == [q \in Runs |-> context]

\* the context is a value created by configure and passed to every call it makes:
\* an update of invocation r's context
Store(r, context) == [ctx EXCEPT ![r] = context]

SetTask(r, filePath, task) == [tasks EXCEPT ![r] = (filePath :> task) @@ @]

(***************************************************************************)
(* Traversal.                                                              *)
(***************************************************************************)
Traverse(dir, isCollection) == [dir |-> dir, isCollection |-> isCollection]

\* a traversal that does not await its recursive calls: only the root's listing
\* and the root's own files are waited for
TraversalSettledShallow(r) ==
  /\ \A t \in pending[r] : t.dir # ctx[r].inputFolder
  /\ \A p \in DOMAIN tasks[r] : IsChild(p, ctx[r].inputFolder) => tasks[r][p].pc \in Resolved

\* Promise.all of traverseDirectory(inputFolder): every nested readdir has been
\* answered and every per-file callback below it has resolved
TraversalSettled(r) ==
  /\ pending[r] = {}
  /\ \A p \in DOMAIN tasks[r] : tasks[r][p].pc \in Resolved

\* prepareOutputFolder without its self-replace check
SkipsCleanupNever(context) == FALSE

\* prepareOutputFolder, line 611: the cleanup is skipped
SkipsCleanup(context) == context.isSelfReplace

\* traverseDirectory, line 644, for the file entries of one listing
Collected(context, fileEntries) ==
  [context EXCEPT !.scannedFiles = @ \cup {Relative(context.inputFolder, p) : p \in fileEntries}]

(***************************************************************************)
(* Actions of one invocation r.                                            *)
(***************************************************************************)
\* configure(input, output) up to the await of fs.stat
Configure(r, input, output, opts) ==
  /\ pc[r] = "idle"
  /\ IF input = ""
     THEN /\ pc' = [pc EXCEPT ![r] = "failed"]
          /\ error' = [error EXCEPT ![r] = "An input folder must be provided."]
          /\ ctx' = ctx
     ELSE IF output = ""
     THEN /\ pc' = [pc EXCEPT ![r] = "failed"]
          /\ error' = [error EXCEPT ![r] = "An output folder must be provided."]
          /\ ctx' = ctx
     ELSE /\ pc' = [pc EXCEPT ![r] = "stat"]
          /\ ctx' = Store(r, createOptimizationContext(input, output, resolveOptions(opts)))
          /\ error' = error
  /\ warned' = [warned EXCEPT ![r] =
                  IF input = "" \/ output = "" THEN @
                  ELSE Traced(createOptimizationContext(input, output, resolveOptions(opts)), @,
                              SetToBag({Line("Scanning input folder", Resolve(input))}))]
  /\ snapshot' = [snapshot EXCEPT ![r] = files]
  /\ returnedBefore' = [returnedBefore EXCEPT ![r] = {q \in Runs : pc[q] = "done"}]
  /\ UNCHANGED <<files, dirs, pending, tasks, unlinkLeft, ops, result, registry, adapter>>

\* a check that is content with anything fs.stat finds
IsDirectoryOrFile(p) == p \in dirs \/ IsFile(p)

\* (await fs.stat(p)).isDirectory()
IsDirectory(p) == p \in dirs

\* traverseDirectory, lines 630-633: one line for every directory entered
ScanningLines(context, directories) ==
  SetToBag({Line("Scanning directory", Relative(context.inputFolder, d)) : d \in directories})

\* processAsset, line 662, and copyAsset, line 964: the lines printed by the
\* callbacks of the entries before their first await
EntryLines(context, fileEntries) ==
  SetToBag({Line("Processing", Relative(context.inputFolder, p)) :
              p \in {q \in fileEntries : determineFormat(q) # Undefined}})
    (+) SetToBag({Line("Skipped copying", Relative(context.inputFolder, p)) :
                    p \in {q \in fileEntries :
                             determineFormat(q) = Undefined /\ context.isSelfReplace}})

\* prepareOutputFolder, lines 605-610
PreparingLines(context) ==
  SetToBag({Line("Preparing output folder", context.outputFolder)})
    (+) (IF context.isSelfReplace
         THEN SetToBag({Line("Self-replacing mode detected", <<>>)}) ELSE EmptyBag)

\* ensureInputFolder: fs.stat answers; pass 1 starts with the root's readdir
EnsureInputFolder(r) ==
  /\ pc[r] = "stat"
  /\ ops' = Logged(r, Op("stat", ctx[r].inputFolder, <<>>, <<>>))
  /\ IF IsDirectory(ctx[r].inputFolder)
     THEN /\ pc' = [pc EXCEPT ![r] = "pass1"]
          /\ pending' = [pending EXCEPT ![r] = {Traverse(ctx[r].inputFolder, TRUE)}]
          /\ warned' = [warned EXCEPT ![r] =
                          Traced(ctx[r], @, ScanningLines(ctx[r], {ctx[r].inputFolder}))]
          /\ error' = error
     ELSE /\ pc' = [pc EXCEPT ![r] = "failed"]
          /\ error' = [error EXCEPT ![r] =
                         IF IsFile(ctx[r].inputFolder) THEN "Input path is not a directory"
                         ELSE "Input folder does not exist"]
          /\ UNCHANGED <<pending, warned>>
  /\ UNCHANGED <<files, dirs, ctx, tasks, unlinkLeft, result, snapshot, returnedBefore, cli, registry, adapter>>

\* traverseDirectory: fs.readdir answers and every entry's callback runs up to
\* its first await
ReadDir(r, t) ==
  /\ t \in pending[r]
  /\ LET entries == ReadDirEntries(t.dir)
         subdirs == entries \cap dirs
         fileEntries == entries \ dirs
     IN  /\ pending' = [pending EXCEPT ![r] =
                          (@ \ {t}) \cup {Traverse(d, t.isCollection) : d \in subdirs}]
         /\ IF t.isCollection
            THEN /\ ctx' = Store(r, Collected(ctx[r], fileEntries))
                 /\ tasks' = tasks
            ELSE /\ ctx' = ctx
                 /\ tasks' = [tasks EXCEPT ![r] =
                                [p \in fileEntries |-> processAssetStart(ctx[r], p)] @@ @]
         /\ warned' = [warned EXCEPT ![r] =
                         Traced(ctx[r], Visited(@, t.isCollection, fileEntries),
                                ScanningLines(ctx[r], subdirs)
                                  (+) (IF t.isCollection THEN EmptyBag
                                       ELSE EntryLines(ctx[r], fileEntries)))]
  /\ ops' = Logged(r, Op("readdir", t.dir, <<>>, <<>>))
  /\ UNCHANGED <<files, dirs, pc, unlinkLeft, result, error, snapshot, returnedBefore, cli, registry, adapter>>

\* pass 2 starts: traverseDirectory(inputFolder, false)
StartsProcessing(r) ==
  /\ pc' = [pc EXCEPT ![r] = "pass2"]
  /\ pending' = [pending EXCEPT ![r] = @ \cup {Traverse(ctx[r].inputFolder, FALSE)}]
  /\ warned' = [warned EXCEPT ![r] =
                  Traced(ctx[r], IF pc[r] = "pass1" THEN Traced(ctx[r], @, PreparingLines(ctx[r]))
                                 ELSE @,
                         ScanningLines(ctx[r], {ctx[r].inputFolder}))]

\* scanInputFolder resumes after pass 1: prepareOutputFolder up to fs.mkdir
PrepareOutputFolder(r) ==
  /\ pc[r] = "pass1"
  /\ TraversalSettled(r)
  /\ IF SkipsCleanup(ctx[r])
     THEN StartsProcessing(r)
     ELSE /\ pc' = [pc EXCEPT ![r] = "mkdirOut"]
          /\ pending' = pending
          /\ warned' = [warned EXCEPT ![r] = Traced(ctx[r], @, PreparingLines(ctx[r]))]
  /\ UNCHANGED <<files, dirs, ctx, tasks, unlinkLeft, ops, result, error, snapshot, returnedBefore, cli, registry, adapter>>

\* prepareOutputFolder: fs.mkdir(outputFolder) answers; the unlink loop starts
MkdirOutput(r) ==
  /\ pc[r] = "mkdirOut"
  /\ dirs' = MkdirRecursive(ctx[r].outputFolder)
  /\ ops' = Logged(r, Op("mkdir", ctx[r].outputFolder, <<>>, <<>>))
  /\ unlinkLeft' = [unlinkLeft EXCEPT ![r] = ctx[r].scannedFiles]
  /\ IF ctx[r].scannedFiles = {}
     THEN StartsProcessing(r)
     ELSE /\ pc' = [pc EXCEPT ![r] = "unlink"]
          /\ UNCHANGED <<pending, warned>>
  /\ UNCHANGED <<files, ctx, tasks, result, error, snapshot, returnedBefore, cli, registry, adapter>>

\* a cleanup that looks for the scanned path below the input folder
OutPathInInput(context, relPath) == Join(context.inputFolder, relPath)

\* prepareOutputFolder, line 616: path.join(context.outputFolder, relPath)
OutPath(context, relPath) == Join(context.outputFolder, relPath)

\* the loop of prepareOutputFolder goes on: to the next path, or to pass 2
CleanupGoesOn(r, log) ==
  /\ error' = error
  /\ IF unlinkLeft'[r] = {}
     THEN /\ pc' = [pc EXCEPT ![r] = "pass2"]
          /\ pending' = [pending EXCEPT ![r] = @ \cup {Traverse(ctx[r].inputFolder, FALSE)}]
          /\ warned' = [warned EXCEPT ![r] =
                          Traced(ctx[r], log, ScanningLines(ctx[r], {ctx[r].inputFolder}))]
     ELSE /\ warned' = [warned EXCEPT ![r] = log]
          /\ UNCHANGED <<pc, pending>>

\* a catch block that lets the error of fs.unlink end the run
CleanupCatchRethrows(r, outPath, threw) ==
  IF threw
  THEN /\ pc' = [pc EXCEPT ![r] = "failed"]
       /\ error' = [error EXCEPT ![r] = "unlink failed"]
       /\ pending' = pending
       /\ warned' = [warned EXCEPT ![r].refused = @ \cup {outPath}]
  ELSE CleanupGoesOn(r, warned[r])

\* prepareOutputFolder, lines 617-621: the catch block swallows the error of
\* fs.unlink, and the loop goes on
CleanupCatch(r, outPath, threw) ==
  CleanupGoesOn(r, IF threw THEN [warned[r] EXCEPT !.refused = @ \cup {outPath}]
                   ELSE warned[r])

\* prepareOutputFolder: one fs.unlink of the loop answers: it removes the file,
\* or it throws, for a path that is no file and for a file it cannot remove
UnlinkOutput(r, relPath) ==
  /\ pc[r] = "unlink"
  /\ relPath \in unlinkLeft[r]
  /\ unlinkLeft' = [unlinkLeft EXCEPT ![r] = @ \ {relPath}]
  /\ LET outPath == OutPath(ctx[r], relPath)
     IN  /\ ops' = Logged(r, Op("unlink", outPath, <<>>, <<>>))
         /\ \E removed \in IF IsFile(outPath) THEN BOOLEAN ELSE {FALSE} :
              /\ files' = IF removed THEN Unlinked(outPath) ELSE files
              /\ CleanupCatch(r, outPath, ~removed)
  /\ UNCHANGED <<dirs, ctx, tasks, result, snapshot, returnedBefore, cli, registry, adapter>>

\* processAsset: fs.readFile answers
ReadFile(r, filePath) ==
  /\ filePath \in DOMAIN tasks[r]
  /\ tasks[r][filePath].pc = "read"
  /\ ops' = Logged(r, Op("readFile", filePath, <<>>, <<>>))
  /\ IF IsFile(filePath)
     THEN /\ tasks' = SetTask(r, filePath, Task("optimize", files[filePath], <<>>, <<>>, <<>>))
          /\ UNCHANGED <<pc, error>>
     ELSE /\ tasks' = SetTask(r, filePath, Task("failed", <<>>, <<>>, <<>>, <<>>))
          /\ Rejected(r, "ENOENT")
  /\ UNCHANGED <<files, dirs, ctx, pending, unlinkLeft, result, snapshot, returnedBefore, warned, cli, registry, adapter>>

\* processAsset: optimizeAsset answers; the size gate; writeOptimizedAsset up to
\* fs.mkdir
OptimizeAsset(r, filePath) ==
  /\ filePath \in DOMAIN tasks[r]
  /\ tasks[r][filePath].pc = "optimize"
  /\ LET orig == tasks[r][filePath].orig
         rel == Relative(ctx[r].inputFolder, filePath)
     IN  \E outcome \in optimizeAsset(determineFormat(filePath), rel, orig) :
           IF outcome.kind = "throw"
           THEN /\ tasks' = SetTask(r, filePath, Task("failed", orig, <<>>, <<>>, <<>>))
                /\ Rejected(r, "adapter error")
                /\ UNCHANGED <<ctx, warned>>
           ELSE /\ tasks' = SetTask(r, filePath,
                              Task("mkdir", orig, outcome.data, SizeGate(orig, outcome.data),
                                   outcome.warnings))
                /\ ctx' = Store(r, recordWarnings(ctx[r], outcome.warnings))
                /\ warned' = [warned EXCEPT ![r] =
                                DeliveredAll(ctx[r], @, outcome.warnings)]
                /\ UNCHANGED <<pc, error>>
  /\ UNCHANGED <<files, dirs, pending, unlinkLeft, ops, result, snapshot, returnedBefore, cli, registry, adapter>>

\* writeOptimizedAsset: fs.mkdir(destinationDir) answers
MkdirDestination(r, filePath) ==
  /\ filePath \in DOMAIN tasks[r]
  /\ tasks[r][filePath].pc = "mkdir"
  /\ LET destinationDir == Dirname(Destination(ctx[r], filePath))
     IN  /\ dirs' = MkdirRecursive(destinationDir)
         /\ ops' = Logged(r, Op("mkdir", destinationDir, filePath, <<>>))
  /\ tasks' = SetTask(r, filePath, [tasks[r][filePath] EXCEPT !.pc = "write"])
  /\ UNCHANGED <<files, pc, ctx, pending, unlinkLeft, result, error, snapshot, returnedBefore, warned, cli, registry, adapter>>

\* writeOptimizedAsset: fs.writeFile(destinationPath, file.data) answers
WriteFile(r, filePath) ==
  /\ filePath \in DOMAIN tasks[r]
  /\ tasks[r][filePath].pc = "write"
  /\ LET destinationPath == Destination(ctx[r], filePath)
         data == tasks[r][filePath].opt
     IN  /\ files' = WriteTo(destinationPath, data)
         /\ ops' = Logged(r, Op("writeFile", destinationPath, filePath, data))
  /\ tasks' = SetTask(r, filePath, [tasks[r][filePath] EXCEPT !.pc = "aggregate"])
  /\ warned' = [warned EXCEPT ![r] =
                  Traced(ctx[r], @, SetToBag({Line("Wrote optimized file",
                                                   Relative(ctx[r].inputFolder, filePath))}))]
  /\ UNCHANGED <<dirs, pc, ctx, pending, unlinkLeft, result, error, snapshot, returnedBefore, cli, registry, adapter>>

\* processAsset resumes after the write: the running totals
Aggregate(r, filePath) ==
  /\ filePath \in DOMAIN tasks[r]
  /\ tasks[r][filePath].pc = "aggregate"
  /\ ctx' = Store(r, Aggregated(ctx[r], Len(tasks[r][filePath].orig),
                                Len(tasks[r][filePath].opt)))
  /\ tasks' = SetTask(r, filePath, [tasks[r][filePath] EXCEPT !.pc = "done"])
  /\ warned' = [warned EXCEPT ![r] =
                  Traced(ctx[r], @, SetToBag({Line("Sizes",
                                                   Relative(ctx[r].inputFolder, filePath))}))]
  /\ UNCHANGED <<files, dirs, pc, pending, unlinkLeft, ops, result, error, snapshot, returnedBefore, cli, registry, adapter>>

\* copyAsset: fs.mkdir(destinationDir) answers
CopyMkdir(r, filePath) ==
  /\ filePath \in DOMAIN tasks[r]
  /\ tasks[r][filePath].pc = "copyMkdir"
  /\ LET destinationDir == Dirname(Destination(ctx[r], filePath))
     IN  /\ dirs' = MkdirRecursive(destinationDir)
         /\ ops' = Logged(r, Op("mkdir", destinationDir, filePath, <<>>))
  /\ tasks' = SetTask(r, filePath, [tasks[r][filePath] EXCEPT !.pc = "copy"])
  /\ UNCHANGED <<files, pc, ctx, pending, unlinkLeft, result, error, snapshot, returnedBefore, warned, cli, registry, adapter>>

\* copyAsset: fs.copyFile(filePath, destinationPath) answers
CopyFile(r, filePath) ==
  /\ filePath \in DOMAIN tasks[r]
  /\ tasks[r][filePath].pc = "copy"
  /\ LET destinationPath == Destination(ctx[r], filePath)
     IN  /\ ops' = Logged(r, Op("copyFile", destinationPath, filePath, <<>>))
         /\ IF IsFile(filePath)
            THEN /\ files' = WriteTo(destinationPath, files[filePath])
                 /\ tasks' = SetTask(r, filePath, [tasks[r][filePath] EXCEPT !.pc = "done"])
                 /\ warned' = [warned EXCEPT ![r] =
                                 Traced(ctx[r], @,
                                        SetToBag({Line("Copied file",
                                                       Relative(ctx[r].inputFolder, filePath))}))]
                 /\ UNCHANGED <<pc, error>>
            ELSE /\ files' = files
                 /\ tasks' = SetTask(r, filePath, [tasks[r][filePath] EXCEPT !.pc = "failed"])
                 /\ Rejected(r, "ENOENT")
                 /\ warned' = warned
  /\ UNCHANGED <<dirs, ctx, pending, unlinkLeft, result, snapshot, returnedBefore, cli, registry, adapter>>

\* configure resumes after pass 2: buildOptimizeResult
ReturnResult(r) ==
  /\ pc[r] = "pass2"
  /\ TraversalSettled(r)
  /\ pc' = [pc EXCEPT ![r] = "done"]
  /\ result' = [result EXCEPT ![r] = {buildOptimizeResult(ctx[r])}]
  /\ UNCHANGED <<files, dirs, ctx, pending, tasks, unlinkLeft, ops, error, snapshot, returnedBefore, warned, cli, registry, adapter>>

(***************************************************************************)
(* The command line (parseArguments in index.ts, runCli in cli.ts).        *)
(***************************************************************************)
\* args[index], a sequence of length 0 when it is undefined
ArgAt(args, index) == IF index <= Len(args) THEN <<args[index]>> ELSE <<>>

\* value ?? ''
OrEmpty(value) == IF value = <<>> THEN "" ELSE value[1]

\* Number(value), for the tokens of the model
ToNumber(value) ==
  CASE value = <<>>      -> NaN
    [] value = <<"150">> -> Num(150)
    [] value = <<"-5">>  -> Num(-5)
    [] value = <<"0">>   -> Num(0)
    [] value = <<"">>    -> Num(0)
    [] OTHER             -> NaN

\* current.startsWith('-'), for the tokens of the model
StartsWithDash(current) ==
  current \in {"-i", "--input", "-o", "--output", "-q", "--quality", "-v", "--verbose",
               "-s", "--self", "--in-place", "-y", "--yes", "--force", "--skip-warning",
               "--bogus", "-5"}

\* parseArguments, lines 484-491: the result and outputProvided before the loop;
\* thrown holds the message of the error the function throws ("" while it has not)
ParseStart ==
  [input |-> "", output |-> "", quality |-> <<>>, verbose |-> FALSE,
   selfReplace |-> FALSE, skipWarning |-> FALSE, outputProvided |-> FALSE, thrown |-> ""]

\* parseArguments, lines 493-537: the loop from position index on
RECURSIVE ParseLoop(_, _, _)
ParseLoop(args, index, parsed) ==
  IF index > Len(args) THEN parsed
  ELSE LET current == args[index]
           value == ArgAt(args, index + 1)
       IN  CASE current \in {"--input", "-i"} ->
                  ParseLoop(args, index + 2, [parsed EXCEPT !.input = OrEmpty(value)])
             [] current \in {"--output", "-o"} ->
                  ParseLoop(args, index + 2,
                            [parsed EXCEPT !.output = OrEmpty(value), !.outputProvided = TRUE])
             [] current \in {"--quality", "-q"} ->
                  IF ~IsFinite(ToNumber(value))
                  THEN [parsed EXCEPT !.thrown = "Image quality must be a valid number."]
                  ELSE ParseLoop(args, index + 2,
                                 [parsed EXCEPT !.quality = <<ToNumber(value)>>])
             [] current \in {"--verbose", "-v"} ->
                  ParseLoop(args, index + 1, [parsed EXCEPT !.verbose = TRUE])
             [] current \in {"--self", "--in-place", "-s"} ->
                  ParseLoop(args, index + 1, [parsed EXCEPT !.selfReplace = TRUE])
             [] current \in {"--skip-warning", "--yes", "--force", "-y"} ->
                  ParseLoop(args, index + 1, [parsed EXCEPT !.skipWarning = TRUE])
             [] OTHER ->
                  IF StartsWithDash(current)
                  THEN [parsed EXCEPT !.thrown = "Unknown option"]
                  ELSE ParseLoop(args, index + 1, parsed)

\* an --output value that is not checked against the self-replace flag
OutputSuppliedNever(parsed) == FALSE

\* parseArguments, line 544
OutputSupplied(parsed) == parsed.outputProvided /\ parsed.output # ""

\* a comparison of the two arguments as they were typed
SamePathTyped(input, output) == input = output

\* parseArguments, lines 559-561
SamePath(input, output) == Resolve(input) = Resolve(output)

\* parseArguments, lines 539-566: the checks after the loop
parseArguments(args) ==
  LET scanned == ParseLoop(args, 1, ParseStart)
      Throw(message) == [scanned EXCEPT !.thrown = message]
  IN  IF scanned.thrown # "" THEN scanned
      ELSE IF scanned.input = "" THEN Throw("Missing required --input option.")
      ELSE IF scanned.selfReplace /\ OutputSupplied(scanned)
      THEN Throw("The --self option cannot be used together with --output.")
      ELSE IF ~scanned.selfReplace /\ (~scanned.outputProvided \/ scanned.output = "")
      THEN Throw("Missing required --output option.")
      ELSE LET output == IF scanned.selfReplace THEN scanned.input ELSE scanned.output
           IN  [scanned EXCEPT
                  !.output = output,
                  !.quality = IF @ = <<>> THEN @ ELSE <<clamp(@[1], Num(1), Num(100))>>,
                  !.selfReplace = @ \/ SamePath(scanned.input, output)]

\* answer.trim().toLowerCase(), for the answers of the model
Normalized(answer) ==
  CASE answer = "Y"     -> "y"
    [] answer = " yes " -> "yes"
    [] answer = "YES"   -> "yes"
    [] OTHER            -> answer

\* a prompt that takes every answer for a yes
ConfirmedAlways(answer) == TRUE

\* confirmSelfReplacing, lines 18-19
Confirmed(answer) == Normalized(answer) = "y" \/ Normalized(answer) = "yes"

\* runCli, lines 44-50: the options it passes to configure
CliOptions(parsed) ==
  [imageQuality |-> parsed.quality,
   verbose |-> IF parsed.verbose THEN <<TRUE>> ELSE <<>>,
   onWarning |-> TRUE]

\* no command-line process: configure is called through the API
CliOff ==
  [pc |-> "off", args |-> <<>>, isTTY |-> FALSE, parsed |-> ParseStart, answer |-> <<>>,
   exitCode |-> 0, printed |-> "", stream |-> "", warnings |-> <<>>]

\* the process as it starts with the given arguments and terminal
CliStart(args, isTTY) == [CliOff EXCEPT !.pc = "start", !.args = args, !.isTTY = isTTY]

\* a catch block that prints the error and leaves process.exitCode alone
CliFailsQuietly(message) ==
  cli' = [cli EXCEPT !.pc = "exit", !.printed = message, !.stream = "error"]

\* runCli, lines 64-67: the catch block
CliFails(message) ==
  cli' = [cli EXCEPT !.pc = "exit", !.exitCode = 1, !.printed = message,
                     !.stream = "error"]

\* runCli, line 44: configure is called with the parsed arguments
CliConfigures(parsed) ==
  /\ Configure("first", parsed.input, parsed.output, CliOptions(parsed))
  /\ cli' = [cli EXCEPT !.pc = "running", !.parsed = parsed]

\* runCli from its start to its first await: the prompt or configure
RunCli ==
  /\ cli.pc = "start"
  /\ LET parsed == parseArguments(cli.args)
     IN  IF parsed.thrown # ""
         THEN /\ CliFails(parsed.thrown)
              /\ UNCHANGED <<files, dirs, pc, ctx, pending, tasks, unlinkLeft, ops, result,
                             error, snapshot, returnedBefore, warned, registry, adapter>>
         ELSE IF parsed.selfReplace /\ ~parsed.skipWarning
         THEN /\ IF ~cli.isTTY
                 THEN CliFails("Self-replacing mode requires an interactive terminal")
                 ELSE cli' = [cli EXCEPT !.pc = "prompt", !.parsed = parsed]
              /\ UNCHANGED <<files, dirs, pc, ctx, pending, tasks, unlinkLeft, ops, result,
                             error, snapshot, returnedBefore, warned, registry, adapter>>
         ELSE CliConfigures(parsed)

\* the question's callback runs with the line typed at the prompt
Answer(answer) ==
  /\ cli.pc = "prompt"
  /\ IF Confirmed(answer)
     THEN /\ Configure("first", cli.parsed.input, cli.parsed.output, CliOptions(cli.parsed))
          /\ cli' = [cli EXCEPT !.pc = "running", !.answer = <<answer>>]
     ELSE /\ cli' = [cli EXCEPT !.pc = "exit", !.answer = <<answer>>,
                                !.printed = "Operation cancelled.", !.stream = "output"]
          /\ UNCHANGED <<files, dirs, pc, ctx, pending, tasks, unlinkLeft, ops, result,
                         error, snapshot, returnedBefore, warned, registry, adapter>>

\* runCli resumes after configure: the summary, or the catch block
CliSettles ==
  /\ cli.pc = "running"
  /\ pc["first"] \in {"done", "failed"}
  /\ IF pc["first"] = "failed" THEN CliFails(error["first"])
     ELSE cli' = [cli EXCEPT
                    !.pc = "exit", !.printed = "summary", !.stream = "output",
                    !.warnings = IF Len(warned["first"].sink) > 0 THEN warned["first"].sink
                                 ELSE (CHOOSE res \in result["first"] : TRUE).warnings]
  /\ UNCHANGED <<files, dirs, pc, ctx, pending, tasks, unlinkLeft, ops, result, error,
                 snapshot, returnedBefore, warned, registry, adapter>>

(***************************************************************************)
(* A caller of the format registry (formats.ts).                           *)
(***************************************************************************)
\* nobody calls the registry
RegistryOff == [extension |-> "", descriptor |-> <<>>, supported |-> <<>>, on |-> FALSE]

\* a caller that holds an extension and has not called yet
RegistryStart(extension) == [RegistryOff EXCEPT !.extension = extension, !.on = TRUE]

\* the caller calls getDescriptorForExtension(extension)
GetDescriptor ==
  /\ registry.on
  /\ registry.descriptor = <<>>
  /\ registry' = [registry EXCEPT
                    !.descriptor = <<getDescriptorForExtension(registry.extension)>>]
  /\ UNCHANGED <<files, dirs, pc, ctx, pending, tasks, unlinkLeft, ops, result, error,
                 snapshot, returnedBefore, warned, cli, adapter>>

\* the caller calls isSupportedFormat(extension)
IsSupported ==
  /\ registry.on
  /\ registry.supported = <<>>
  /\ registry' = [registry EXCEPT !.supported = <<isSupportedFormat(registry.extension)>>]
  /\ UNCHANGED <<files, dirs, pc, ctx, pending, tasks, unlinkLeft, ops, result, error,
                 snapshot, returnedBefore, warned, cli, adapter>>

(***************************************************************************)
(* A caller of one encoder adapter (compressImage, optimizeVideoAsset).    *)
(***************************************************************************)
\* nobody calls an adapter
AdapterOff ==
  [on |-> FALSE, category |-> "", rel |-> <<>>, format |-> "", data |-> <<>>,
   quality |-> Num(80),
   encoders |-> [sharp |-> "ok", detail |-> "error-1",
                 first |-> Encoded(<<>>), retry |-> Encoded(<<>>)],
   runtime |-> [videoEncoder |-> FALSE, videoDecoder |-> FALSE, module |-> "throws", pipeline |-> "throws",
                init |-> "throws", execute |-> "throws", buffer |-> <<>>,
                detail |-> "error-1"],
   ended |-> <<>>]

\* optimizeImageAsset is about to call compressImage for an image file
ImageStart(rel, format, data, quality, encoders) ==
  [AdapterOff EXCEPT !.on = TRUE, !.category = "image", !.rel = rel, !.format = format,
                     !.data = data, !.quality = quality, !.encoders = encoders]

\* optimizeAsset is about to call optimizeVideoAsset for a video file
VideoStart(rel, format, data, runtime) ==
  [AdapterOff EXCEPT !.on = TRUE, !.category = "video", !.rel = rel, !.format = format,
                     !.data = data, !.runtime = runtime]

\* optimizeImageAsset, lines 736-741: compressImage runs to its end
CompressImage ==
  /\ adapter.on
  /\ adapter.category = "image"
  /\ adapter.ended = <<>>
  /\ adapter' = [adapter EXCEPT !.ended = <<compressImageIn(adapter.data, adapter.format,
                                                            adapter.quality, adapter.encoders)>>]
  /\ UNCHANGED <<files, dirs, pc, ctx, pending, tasks, unlinkLeft, ops, result, error,
                 snapshot, returnedBefore, warned, cli, registry>>

\* optimizeVideoAsset runs to its end
OptimizeVideo ==
  /\ adapter.on
  /\ adapter.category = "video"
  /\ adapter.ended = <<>>
  /\ adapter' = [adapter EXCEPT !.ended = <<optimizeVideoAssetIn(adapter.rel, adapter.data,
                                                                 adapter.runtime)>>]
  /\ UNCHANGED <<files, dirs, pc, ctx, pending, tasks, unlinkLeft, ops, result, error,
                 snapshot, returnedBefore, warned, cli, registry>>

(***************************************************************************)
(* Initial states and specifications.                                      *)
(***************************************************************************)
\* the files an input tree may hold before the first invocation
CandidateFiles ==
  {<<"in", "a.json">>, <<"in", "b.txt">>, <<"in", "C.SVG">>,
   <<"in", "sub", "a.json">>, <<"in", "sub", "b.txt">>}

\* the contents such a file may have
InitialContents(p) == IF p = <<"in", "a.json">> THEN {<<>>, <<0>>} ELSE {<<0>>}

InitialTrees ==
  UNION {{f \in [present -> Buffers] : \A p \in present : f[p] \in InitialContents(p)} :
           present \in {c \in SUBSET CandidateFiles : Cardinality(c) <= MaxFiles}}

\* the arguments a caller may pass to configure
InputArgs == {"in", "", "in/b.txt"}
OutputArgs == {"in", "out", "in/sub", ""}

NoTasks == [p \in {} |-> Task("read", <<>>, <<>>, <<>>, <<>>)]

\* no invocation has been made
Idle ==
  /\ pc = [r \in Runs |-> "idle"]
  /\ ctx = [r \in Runs |-> NoContext]
  /\ pending = [r \in Runs |-> {}]
  /\ tasks = [r \in Runs |-> NoTasks]
  /\ unlinkLeft = [r \in Runs |-> {}]
  /\ ops = [r \in Runs |-> EmptyBag]
  /\ result = [r \in Runs |-> {}]
  /\ error = [r \in Runs |-> ""]
  /\ snapshot = [r \in Runs |-> NoTasks]
  /\ returnedBefore = [r \in Runs |-> {}]
  /\ warned = [r \in Runs |-> NoWarnings]

Init ==
  /\ files \in InitialTrees
  /\ dirs = UNION {Prefixes(Dirname(p)) : p \in DOMAIN files} \cup {<<>>, <<"in">>}
  /\ Idle
  /\ cli = CliOff
  /\ registry = RegistryOff
  /\ adapter = AdapterOff

\* the arguments of the callers that make two invocations
TwoInputArgs == {"in"}
TwoOutputArgs == {"in", "out"}

\* every step invocation r can take once it has been called
Proceeds(r) ==
  \/ EnsureInputFolder(r)
  \/ \E t \in pending[r] : ReadDir(r, t)
  \/ PrepareOutputFolder(r)
  \/ MkdirOutput(r)
  \/ \E relPath \in unlinkLeft[r] : UnlinkOutput(r, relPath)
  \/ \E filePath \in DOMAIN tasks[r] :
       \/ ReadFile(r, filePath)
       \/ OptimizeAsset(r, filePath)
       \/ MkdirDestination(r, filePath)
       \/ WriteFile(r, filePath)
       \/ Aggregate(r, filePath)
       \/ CopyMkdir(r, filePath)
       \/ CopyFile(r, filePath)
  \/ ReturnResult(r)

\* every step invocation r can take, called with arguments of the given sets
Step(r, inputs, outputs, options) ==
  \/ \E input \in inputs, output \in outputs, opts \in options :
       Configure(r, input, output, opts) /\ UNCHANGED <<cli, registry, adapter>>
  \/ Proceeds(r)

\* one invocation of configure
Next == Step("first", InputArgs, OutputArgs, {NoOptions})

Spec == Init /\ [][Next]_vars

\* one invocation whose filesystem calls and adapters all answer in the end:
\* the event loop runs every continuation that is ready
SpecAnswered == Init /\ [][Next]_vars /\ WF_vars(Proceeds("first"))

\* between two invocations the caller removes a file from the input tree
RemoveInputFile(p) ==
  /\ pc["first"] \in {"done", "failed"}
  /\ pc["second"] = "idle"
  /\ IsFile(p)
  /\ SubSeq(p, 1, 1) = <<"in">>
  /\ files' = Unlinked(p)
  /\ UNCHANGED <<dirs, pc, ctx, pending, tasks, unlinkLeft, ops, result, error, snapshot, returnedBefore, warned, cli, registry, adapter>>

\* two invocations in a row: the caller awaits the first before it makes the second
NextInARow ==
  \/ Step("first", TwoInputArgs, TwoOutputArgs, {NoOptions})
  \/ pc["first"] \in {"done", "failed"} /\ Step("second", TwoInputArgs, TwoOutputArgs, {NoOptions})
  \/ \E p \in DOMAIN files : RemoveInputFile(p)

SpecInARow == Init /\ [][NextInARow]_vars

\* two invocations overlapping in time: the caller awaits both together
NextOverlapping == \E r \in Runs : Step(r, TwoInputArgs, TwoOutputArgs, {NoOptions})

InitOverlapping == Init /\ Cardinality(DOMAIN files) <= MaxOverlapFiles

SpecOverlapping == InitOverlapping /\ [][NextOverlapping]_vars

\* the files an input tree may hold when a caller passes options or runs the CLI
CallerFiles ==
  {<<"in", "d.png">>, <<"in", "e.png">>, <<"in", "f.avif">>, <<"in", "b.txt">>,
   <<"in", "C.SVG">>}

CallerTrees(most) ==
  UNION {[present -> {<<0>>}] :
           present \in {c \in SUBSET CallerFiles : Cardinality(c) <= most}}

\* the options a caller may pass to configure
ApiOptions ==
  {[imageQuality |-> quality, verbose |-> verbose, onWarning |-> onWarning] :
     quality \in {<<>>, <<Num(150)>>, <<Num(-5)>>, <<Num(0)>>, <<Num(55)>>, <<NaN>>},
     verbose \in {<<>>, <<TRUE>>},
     onWarning \in BOOLEAN}

\* the pieces a command line is made of
ArgumentGroups ==
  {<<"-i", "in">>, <<"-o", "out">>, <<"--output", "./in">>, <<"-o", "">>, <<"-o">>,
   <<"-s">>, <<"-y">>, <<"-q", "150">>, <<"--quality", "-5">>, <<"-q", "0">>,
   <<"-q", "x">>, <<"--bogus">>, <<"-v">>}

RECURSIVE Concatenations(_)
Concatenations(n) ==
  IF n = 0 THEN {<<>>}
  ELSE Concatenations(n - 1)
         \cup {a \o g : a \in Concatenations(n - 1), g \in ArgumentGroups}

\* process.argv.slice(2)
ArgLists == Concatenations(MaxGroups)

\* the lines typed at the prompt
Answers == {"y", "Y", " yes ", "n", "", "yes please"}

InitCallers ==
  /\ \/ cli = CliOff /\ files \in CallerTrees(MaxFiles)
     \/ cli \in {CliStart(args, isTTY) : args \in ArgLists, isTTY \in BOOLEAN}
          /\ files \in CallerTrees(MaxCliFiles)
  /\ dirs = UNION {Prefixes(Dirname(p)) : p \in DOMAIN files} \cup {<<>>, <<"in">>}
  /\ Idle
  /\ registry = RegistryOff
  /\ adapter = AdapterOff

\* a program calls configure with options
CallerConfigures ==
  /\ cli.pc = "off"
  /\ \E input \in TwoInputArgs, output \in TwoOutputArgs, opts \in ApiOptions :
       Configure("first", input, output, opts)
  /\ UNCHANGED <<cli, registry, adapter>>

\* one caller: a program that passes options to configure, or the command line
NextCallers ==
  \/ CallerConfigures
  \/ RunCli
  \/ \E answer \in Answers : Answer(answer)
  \/ CliSettles
  \/ Proceeds("first")

SpecCallers == InitCallers /\ [][NextCallers]_vars

\* the spellings of an extension: as it is, in capitals, and capitalised
Spellings(extension) ==
  CASE extension = "png"  -> {"png", "PNG", "Png"}
    [] extension = "webp" -> {"webp", "WEBP", "WebP"}
    [] extension = "jpg"  -> {"jpg", "JPG", "Jpg"}
    [] extension = "jpeg" -> {"jpeg", "JPEG", "Jpeg"}
    [] extension = "avif" -> {"avif", "AVIF", "Avif"}
    [] extension = "svg"  -> {"svg", "SVG", "Svg"}
    [] extension = "json" -> {"json", "JSON", "Json"}
    [] extension = "mp4"  -> {"mp4", "MP4", "Mp4"}
    [] extension = "webm" -> {"webm", "WEBM", "WebM"}
    [] extension = "txt"  -> {"txt", "TXT", "Txt"}
    [] OTHER              -> {extension}

\* the extensions of the registry
SupportedExtensions == {FORMAT_DESCRIPTORS[i].extension : i \in 1..Len(FORMAT_DESCRIPTORS)}

\* the strings a caller may pass to the registry
Extensions ==
  UNION {Spellings(extension) :
           extension \in SupportedExtensions
             \cup {"txt", "", "html", "bin", ".png", "gif", "pngx", "mp3"}}

InitRegistry ==
  /\ files = NoTasks
  /\ dirs = {<<>>}
  /\ Idle
  /\ cli = CliOff
  /\ registry \in {RegistryStart(extension) : extension \in Extensions}
  /\ adapter = AdapterOff

\* one caller of the registry's two functions
NextRegistry == GetDescriptor \/ IsSupported

SpecRegistry == InitRegistry /\ [][NextRegistry]_vars

\* the imageQuality of the context an adapter is called with
Qualities == {Num(80), Num(55)}

\* the image and video files an adapter may be called for
ImageFiles == {<<<<"d.png">>, "png">>, <<<<"f.avif">>, "avif">>, <<<<"p.webp">>, "webp">>,
               <<<<"q.jpg">>, "jpg">>, <<<<"sub", "r.jpeg">>, "jpeg">>}

VideoFiles == {<<<<"g.mp4">>, "mp4">>, <<<<"sub", "h.webm">>, "webm">>}

InitAdapters ==
  /\ files = NoTasks
  /\ dirs = {<<>>}
  /\ Idle
  /\ cli = CliOff
  /\ registry = RegistryOff
  /\ adapter \in {ImageStart(file[1], file[2], data, quality, encoders) :
                     file \in ImageFiles, data \in Buffers, quality \in Qualities,
                     encoders \in Encoders}
                  \cup {VideoStart(file[1], file[2], data, runtime) :
                          file \in VideoFiles, data \in Buffers, runtime \in Runtimes}

\* one call of an encoder adapter
NextAdapters == CompressImage \/ OptimizeVideo

SpecAdapters == InitAdapters /\ [][NextAdapters]_vars

(***************************************************************************)
(* Vocabulary of the properties.                                           *)
(***************************************************************************)
RECURSIVE Sum(_)
Sum(f) ==
  IF DOMAIN f = {} THEN 0
  ELSE LET x == CHOOSE y \in DOMAIN f : TRUE
       IN  f[x] + Sum([y \in (DOMAIN f) \ {x} |-> f[y]])

\* the calls of one kind an invocation has issued
Issued(r, kinds) == {op \in BagToSet(ops[r]) : op.op \in kinds}

\* the scanned paths of an invocation whose classification fails
Unclassified(r) ==
  {rel \in ctx[r].scannedFiles : determineFormat(Join(ctx[r].inputFolder, rel)) = Undefined}

\* the per-file tasks of an invocation whose totals have been added
AggregatedTasks(r) == {p \in DOMAIN tasks[r] : tasks[r][p].pc = "done" /\ determineFormat(p) # Undefined}

IsUnder(p, dir) == Len(p) >= Len(dir) /\ SubSeq(p, 1, Len(dir)) = dir

\* the files below an invocation's input directory when configure was called
InputFilesOf(r) == {p \in DOMAIN snapshot[r] : IsUnder(p, ctx[r].inputFolder)}

\* the running totals of an invocation account for exactly its own finished tasks
OwnTotals(r) ==
  /\ ctx[r].processedFiles = Cardinality(AggregatedTasks(r))
  /\ ctx[r].totalOriginalSize = Sum([p \in AggregatedTasks(r) |-> Len(tasks[r][p].orig)])
  /\ ctx[r].totalOptimizedSize = Sum([p \in AggregatedTasks(r) |-> Len(tasks[r][p].opt)])
  /\ ctx[r].optimizedFiles =
       Cardinality({p \in AggregatedTasks(r) : Len(tasks[r][p].opt) < Len(tasks[r][p].orig)})

(***************************************************************************)
(* The size gate.                                                          *)
(***************************************************************************)
\* C1: whatever the adapter returned, the bytes handed to fs.writeFile are the
\* candidate only if it is strictly shorter than the bytes read, and the bytes read
\* otherwise; they are never longer than the bytes read.
C1_SizeGate ==
  \A r \in Runs : \A op \in Issued(r, {"writeFile"}) :
    LET t == tasks[r][op.src]
    IN  /\ op.data = (IF Len(t.cand) < Len(t.orig) THEN t.cand ELSE t.orig)
        /\ Len(op.data) <= Len(t.orig)
        /\ op.path = Destination(ctx[r], op.src)

\* an adapter returned a candidate of the original's size with other bytes, and
\* the file has been written
C1_EqualSizedCandidateWritten ==
  \E r \in Runs : \E op \in Issued(r, {"writeFile"}) :
    LET t == tasks[r][op.src]
    IN  Len(t.cand) = Len(t.orig) /\ t.cand # t.orig

(***************************************************************************)
(* Cleanup of the output directory.                                        *)
(***************************************************************************)
\* C2: after two invocations in a row with the same directories, output apart from
\* input, and an input file removed in between, every file below the output
\* directory has its relative path in the second invocation's scannedFiles.
C2_NoStaleOutput ==
  LET first == ctx["first"]
      second == ctx["second"]
  IN  ( /\ pc["first"] = "done" /\ pc["second"] = "done"
        /\ ~first.isSelfReplace /\ ~second.isSelfReplace
        /\ first.inputFolder = second.inputFolder
        /\ first.outputFolder = second.outputFolder
        /\ InputFilesOf("first") \ InputFilesOf("second") # {} )
      => \A p \in DOMAIN files :
           IsUnder(p, second.outputFolder) =>
             Relative(second.outputFolder, p) \in second.scannedFiles

\* C3: a self-replace invocation never issues fs.unlink.
C3_NoUnlinkInSelfReplace ==
  \A r \in Runs : ctx[r].isSelfReplace => Issued(r, {"unlink"}) = {}

\* a self-replace invocation that scanned files has returned its Result
C3_SelfReplaceReturned ==
  \E r \in Runs : ctx[r].isSelfReplace /\ pc[r] = "done" /\ ctx[r].scannedFiles # {}

(***************************************************************************)
(* Files whose classification fails.                                       *)
(***************************************************************************)
\* C4: in a self-replace invocation a file whose classification fails is skipped:
\* no call names it as its path or as the file it is made for, its bytes stay what
\* they were, the totals count the other files only, and no warning names it.
C4_UnsupportedUntouched ==
  \A r \in Runs : ctx[r].isSelfReplace =>
    /\ OwnTotals(r)
    /\ \A p \in DOMAIN tasks[r] : determineFormat(p) = Undefined =>
         /\ tasks[r][p].pc = "skipped"
         /\ \A op \in BagToSet(ops[r]) : op.path # p /\ op.src # p
         /\ p \in DOMAIN files /\ files[p] = snapshot[r][p]
         /\ \A i \in 1..Len(ctx[r].warningMessages) :
              ctx[r].warningMessages[i].path # Relative(ctx[r].inputFolder, p)

\* a self-replace invocation has returned with an unclassified file skipped and
\* a classified file processed
C4_SkippedBesideProcessed ==
  \E r \in Runs :
    /\ ctx[r].isSelfReplace /\ pc[r] = "done"
    /\ \E p \in DOMAIN tasks[r] : determineFormat(p) = Undefined
    /\ AggregatedTasks(r) # {}

\* C5: when an invocation with output apart from input has returned, every input
\* file whose classification fails is at the same relative path below the output
\* directory with the input's bytes, and the totals count the other files only.
C5_UnsupportedCopied ==
  \A r \in Runs : (pc[r] = "done" /\ ~ctx[r].isSelfReplace) =>
    /\ OwnTotals(r)
    /\ \A p \in InputFilesOf(r) : determineFormat(p) = Undefined =>
         LET destinationPath == Destination(ctx[r], p)
         IN  destinationPath \in DOMAIN files /\ files[destinationPath] = snapshot[r][p]

(***************************************************************************)
(* Counters.                                                               *)
(***************************************************************************)
\* C6: the Result's filesProcessed is filesScanned minus the number of scanned
\* files whose classification failed.
C6_ProcessedCount ==
  \A r \in Runs : \A res \in result[r] :
    res.filesProcessed = res.filesScanned - Cardinality(Unclassified(r))

\* C7: the processed counter never exceeds the number of scanned files, in the
\* context at every step and in the Result.
C7_ProcessedAtMostScanned ==
  \A r \in Runs :
    /\ ctx[r].processedFiles <= Cardinality(ctx[r].scannedFiles)
    /\ \A res \in result[r] : res.filesProcessed <= res.filesScanned

(***************************************************************************)
(* The three phases of scanInputFolder.                                    *)
(***************************************************************************)
\* a call of the cleanup step has been issued, or the step is under way
CleanupStarted(r) ==
  \/ pc[r] \in {"mkdirOut", "unlink"}
  \/ Issued(r, {"unlink"}) # {}
  \/ \E op \in Issued(r, {"mkdir"}) : op.src = <<>>

\* a visit, a per-file task or a per-file call of pass 2 exists
ProcessingStarted(r) ==
  \/ \E t \in pending[r] : ~t.isCollection
  \/ DOMAIN tasks[r] # {}
  \/ Issued(r, {"readFile", "writeFile", "copyFile"}) # {}
  \/ \E op \in Issued(r, {"mkdir"}) : op.src # <<>>

\* the cleanup step has returned: skipped, or the output directory made and one
\* unlink issued and answered for every scanned path
CleanupCompleted(r) ==
  /\ pc[r] \notin {"idle", "stat", "pass1", "mkdirOut", "unlink"}
  /\ unlinkLeft[r] = {}
  /\ ~ctx[r].isSelfReplace =>
       /\ \E op \in Issued(r, {"mkdir"}) : op.src = <<>> /\ op.path = ctx[r].outputFolder
       /\ \A rel \in ctx[r].scannedFiles :
            \E op \in Issued(r, {"unlink"}) : op.path = Join(ctx[r].outputFolder, rel)

\* C8: while any visit of pass 1 is outstanding no cleanup call has been issued,
\* and once anything of pass 2 exists the cleanup step has returned and no visit
\* of pass 1 is outstanding.
C8_PhasesSequenced ==
  \A r \in Runs :
    /\ CleanupStarted(r) => \A t \in pending[r] : ~t.isCollection
    /\ ProcessingStarted(r) =>
         /\ CleanupCompleted(r)
         /\ \A t \in pending[r] : ~t.isCollection

\* an invocation with output apart from input scanned a nested directory, unlinked
\* and is writing in pass 2
C8_AllPhasesSeen ==
  \E r \in Runs :
    /\ ~ctx[r].isSelfReplace
    /\ \E rel \in ctx[r].scannedFiles : Len(rel) = 2
    /\ Issued(r, {"unlink"}) # {}
    /\ Issued(r, {"writeFile"}) # {}

(***************************************************************************)
(* Two invocations.                                                        *)
(***************************************************************************)
\* the classified input files of an invocation
SupportedOf(r) == {p \in InputFilesOf(r) : determineFormat(p) # Undefined}

\* what the adapter answered for an input file of invocation r
CandidateOf(r, p) == IF p \in DOMAIN tasks[r] THEN tasks[r][p].cand ELSE <<>>

\* the context invocation r would end with had it run alone on the tree it was
\* called on, its adapters answering as they did
AloneContext(r) ==
  LET context == createOptimizationContext(ctx[r].providedInput, ctx[r].providedOutput,
                                           ctx[r].options)
      written == [p \in SupportedOf(r) |-> SizeGate(snapshot[r][p], CandidateOf(r, p))]
  IN  [context EXCEPT
         !.scannedFiles = {Relative(context.inputFolder, p) : p \in InputFilesOf(r)},
         !.processedFiles = Cardinality(SupportedOf(r)),
         !.totalOriginalSize = Sum([p \in SupportedOf(r) |-> Len(snapshot[r][p])]),
         !.totalOptimizedSize = Sum([p \in SupportedOf(r) |-> Len(written[p])]),
         !.optimizedFiles =
           Cardinality({p \in SupportedOf(r) : Len(written[p]) < Len(snapshot[r][p])}),
         !.warningMessages = ctx[r].warningMessages]

\* the counters and warnings of an invocation come from its own per-file tasks
Isolated(r) ==
  /\ OwnTotals(r)
  /\ \A i \in 1..Len(ctx[r].warningMessages) :
       \E p \in DOMAIN tasks[r] : \E j \in 1..Len(tasks[r][p].warnings) :
         ctx[r].warningMessages[i] = tasks[r][p].warnings[j]

ResultAsAlone(r) == \A res \in result[r] : res = buildOptimizeResult(AloneContext(r))

\* invocation q writes into the tree invocation r reads
WritesIntoInputOf(q, r) ==
  /\ pc[q] # "idle" /\ ctx[q].outputFolder # <<>> /\ ctx[r].inputFolder # <<>>
  /\ \/ IsUnder(ctx[q].outputFolder, ctx[r].inputFolder)
     \/ IsUnder(ctx[r].inputFolder, ctx[q].outputFolder)

\* no other invocation writes into r's input tree while r runs: one that does has
\* returned before r was called, or was called after r returned
Undisturbed(r) ==
  \A q \in Runs \ {r} :
    WritesIntoInputOf(q, r) => (q \in returnedBefore[r] \/ r \in returnedBefore[q])

\* C9 as stated: for any two invocations, overlapping or not, each one's counters
\* and warnings are its own and its Result is the Result it would return alone.
C9_AnyTwoInvocations == \A r \in Runs : Isolated(r) /\ ResultAsAlone(r)

\* C9, amended: the counters and warnings of every invocation come from its own
\* per-file tasks; and the Result of an invocation is the Result it would return
\* alone whenever no other invocation writes into its input tree while it runs.
C9_Isolation ==
  \A r \in Runs : Isolated(r) /\ (Undisturbed(r) => ResultAsAlone(r))

\* two invocations that overlapped in time have both returned a Result counting a
\* file, and neither wrote into the other's input tree
C9_BothReturnedOverlapping ==
  /\ \A r \in Runs :
       /\ \E res \in result[r] : res.filesProcessed >= 1
       /\ returnedBefore[r] = {}
       /\ \A q \in Runs \ {r} : ~WritesIntoInputOf(q, r)

(***************************************************************************)
(* Totals.                                                                 *)
(***************************************************************************)
\* C10: the optimized total never exceeds the original total, and the Result's
\* totalSavings is their difference and never negative.
C10_TotalsOrdered ==
  \A r \in Runs :
    /\ ctx[r].totalOptimizedSize <= ctx[r].totalOriginalSize
    /\ \A res \in result[r] :
         /\ res.totalSavings = res.totalOriginalSize - res.totalOptimizedSize
         /\ res.totalSavings >= 0

\* a Result counts a file whose adapter answered with more bytes than it was given
C10_LongerCandidateCounted ==
  \E r \in Runs : \E res \in result[r] :
    \E p \in AggregatedTasks(r) : Len(tasks[r][p].cand) > Len(tasks[r][p].orig)

(***************************************************************************)
(* The savings percentage.                                                 *)
(***************************************************************************)
\* C11: the Result's totalSavingsPercent is exactly 0 when its totalOriginalSize
\* is 0, and otherwise the fraction totalSavings / totalOriginalSize * 100.
C11_SavingsPercent ==
  \A r \in Runs : \A res \in result[r] :
    LET percent == res.totalSavingsPercent
    IN  IF res.totalOriginalSize = 0
        THEN percent = [num |-> 0, den |-> 1]
        ELSE /\ percent.den # 0
             /\ percent.num * res.totalOriginalSize = res.totalSavings * 100 * percent.den

\* a Result over a tree of pass-through files only: files scanned, none processed,
\* totalOriginalSize 0
C11_PassThroughOnly ==
  \E r \in Runs : \E res \in result[r] :
    res.filesScanned >= 1 /\ res.filesProcessed = 0 /\ res.totalOriginalSize = 0

(***************************************************************************)
(* Failures of the adapters.                                               *)
(***************************************************************************)
\* the per-file tasks of a category whose adapter has answered with a warning
FailedIn(r, category) ==
  {p \in DOMAIN tasks[r] :
     determineFormat(p).category = category /\ tasks[r][p].warnings # <<>>}

\* the recorded warnings of an invocation that hold a given path
WarningsNaming(r, rel) ==
  {i \in 1..Len(ctx[r].warningMessages) : ctx[r].warningMessages[i].path = rel}

\* C12: a .json file that cannot be parsed does not stop its task, and the run
\* fails only if the task of another file has failed; one warning holding its relative path and the parse error's text is recorded; the
\* bytes written for it are the bytes read; it is counted as processed and not as
\* optimized.
C12_JsonFallback ==
  \A r \in Runs : \A p \in FailedIn(r, "data") :
    LET t == tasks[r][p]
        rel == Relative(ctx[r].inputFolder, p)
    IN  /\ t.pc \in {"mkdir", "write", "aggregate", "done"}
        /\ pc[r] = "failed" => \E q \in DOMAIN tasks[r] \ {p} : tasks[r][q].pc = "failed"
        /\ Cardinality(WarningsNaming(r, rel)) = 1
        /\ \A i \in WarningsNaming(r, rel) :
             /\ ctx[r].warningMessages[i].kind = "json-failed"
             /\ ctx[r].warningMessages[i].detail \in ErrorDetails
        /\ t.opt = t.orig
        /\ \A op \in Issued(r, {"writeFile"}) : op.src = p => op.data = t.orig
        /\ \A res \in result[r] :
             /\ p \in AggregatedTasks(r)
             /\ res.filesProcessed = Cardinality(AggregatedTasks(r))
             /\ res.filesOptimized =
                  Cardinality({q \in AggregatedTasks(r) \ {p} :
                                 Len(tasks[r][q].opt) < Len(tasks[r][q].orig)})

\* a Result was returned for a tree with a non-empty .json file that failed to
\* parse and was written
C12_UnparsableJsonReturned ==
  \E r \in Runs : \E p \in FailedIn(r, "data") :
    /\ result[r] # {}
    /\ tasks[r][p].orig # <<>>
    /\ \E op \in Issued(r, {"writeFile"}) : op.src = p

\* C13: whatever the SVG minifier does with a file, its task does not fail and
\* does not make configure fail; when the minifier fails a warning is recorded and
\* the bytes read are written.
C13_VectorFailureTolerated ==
  \A r \in Runs : \A p \in DOMAIN tasks[r] :
    determineFormat(p).category = "vector" =>
      /\ tasks[r][p].pc # "failed"
      /\ error[r] # "adapter error"
      /\ p \in FailedIn(r, "vector") => tasks[r][p].opt = tasks[r][p].orig

\* C14: every warning an adapter hands back for a file names that file's path, so
\* that the warnings of two different files are never the same message: the
\* recorded warnings are as many as the warnings the files produced.
C14_WarningsNameFile ==
  \A r \in Runs :
    /\ \A p \in DOMAIN tasks[r] : \A i \in 1..Len(tasks[r][p].warnings) :
         tasks[r][p].warnings[i].path = Relative(ctx[r].inputFolder, p)
    /\ Len(ctx[r].warningMessages) = Sum([p \in DOMAIN tasks[r] |-> Len(tasks[r][p].warnings)])

\* the warnings of invocation r that reached its sink: options.onWarning if the
\* caller supplied one, the console otherwise
DeliveredTo(r) == IF ctx[r].options.onWarning THEN warned[r].sink ELSE warned[r].console

Occurrences(seq, x) == Cardinality({i \in 1..Len(seq) : seq[i] = x})

\* C15: at every moment of a run the messages delivered (to onWarning if supplied,
\* otherwise to the console, never to both) are the distinct messages recorded so
\* far, in the order of their first occurrence, each once; every warning a file
\* has produced is among them; and Result.warnings is that same sequence.
C15_DeliveredOnce ==
  \A r \in Runs :
    /\ DeliveredTo(r) = ctx[r].warningMessages
    /\ \A i \in 1..Len(DeliveredTo(r)) : Occurrences(DeliveredTo(r), DeliveredTo(r)[i]) = 1
    /\ \A p \in DOMAIN tasks[r] : \A i \in 1..Len(tasks[r][p].warnings) :
         Occurrences(DeliveredTo(r), tasks[r][p].warnings[i]) = 1
    /\ IF ctx[r].options.onWarning THEN warned[r].console = <<>> ELSE warned[r].sink = <<>>
    /\ \A res \in result[r] : res.warnings = DeliveredTo(r)

\* C15 witness: a run with a sink has returned after two files produced the same
\* message, which the sink received once.
C15_RepeatedMessageReturned ==
  \E r \in Runs : \E p, q \in DOMAIN tasks[r] :
    /\ result[r] # {}
    /\ ctx[r].options.onWarning
    /\ p # q
    /\ tasks[r][p].warnings # <<>>
    /\ tasks[r][q].warnings # <<>>
    /\ tasks[r][p].warnings[1] = tasks[r][q].warnings[1]
    /\ Len(warned[r].sink) = 1

\* the errors configure raises for its arguments
ArgumentErrors ==
  {"An input folder must be provided.", "An output folder must be provided.",
   "Input folder does not exist", "Input path is not a directory"}

\* the calls of fs that change the filesystem
Mutations == {"mkdir", "unlink", "writeFile", "copyFile"}

\* C16: an invocation gets past the check of its input folder only with a non-empty
\* input and output whose resolved input is a directory; otherwise it has failed
\* with one of the explicit errors, and then it has returned no result, started no
\* per-file work and issued no mkdir, unlink, writeFile or copyFile: the files are
\* those it found.
C16_FailsBeforeMutation ==
  \A r \in Runs :
    /\ pc[r] \notin {"idle", "stat"} /\ error[r] \notin ArgumentErrors =>
         /\ ctx[r].providedInput # ""
         /\ ctx[r].providedOutput # ""
         /\ ctx[r].inputFolder \in dirs
         /\ ctx[r].inputFolder \notin DOMAIN snapshot[r]
    /\ error[r] \in ArgumentErrors =>
         /\ pc[r] = "failed"
         /\ result[r] = {}
         /\ DOMAIN tasks[r] = {}
         /\ Issued(r, Mutations) = {}
         /\ files = snapshot[r]

\* C16 witness: configure was given a path that is a regular file as its input,
\* with an output folder that does not exist, and has failed.
C16_InputIsAFile ==
  \E r \in Runs :
    /\ error[r] = "Input path is not a directory"
    /\ <<"out">> \notin dirs

InRange(n) == IsFinite(n) /\ n.v \in 1..100

\* C17: the image quality of every invocation's context, and the quality
\* parseArguments returns, is a value in [1,100].
C17_QualityInRange ==
  /\ \A r \in Runs : InRange(ctx[r].options.imageQuality)
  /\ cli.parsed.quality # <<>> => InRange(cli.parsed.quality[1])

\* the command line asks for self-replace and does not skip the confirmation
NeedsConfirmation ==
  /\ cli.pc \notin {"off", "start"}
  /\ parseArguments(cli.args).thrown = ""
  /\ parseArguments(cli.args).selfReplace
  /\ ~parseArguments(cli.args).skipWarning

\* C18: when parseArguments returns selfReplace = TRUE and skipWarning = FALSE,
\* configure has been invoked only on an interactive terminal after an answer that
\* reads 'y' or 'yes'; after any other answer the CLI has ended without an error,
\* configure not invoked and no filesystem call issued; and without an interactive
\* terminal the CLI has ended with an error, configure not invoked.
C18_PromptGuardsConfigure ==
  NeedsConfirmation =>
    /\ pc["first"] # "idle" =>
         /\ cli.isTTY
         /\ cli.answer # <<>>
         /\ Normalized(cli.answer[1]) \in {"y", "yes"}
    /\ cli.answer # <<>> /\ Normalized(cli.answer[1]) \notin {"y", "yes"} =>
         /\ cli.pc = "exit"
         /\ cli.exitCode = 0
         /\ pc["first"] = "idle"
         /\ ops["first"] = EmptyBag
    /\ ~cli.isTTY =>
         /\ cli.pc = "exit"
         /\ cli.exitCode = 1
         /\ pc["first"] = "idle"
         /\ ops["first"] = EmptyBag

\* C18 witness: the prompt was answered "Y" and the self-replacing run that
\* followed has written a file and returned.
C18_ConfirmedRunReturned ==
  /\ NeedsConfirmation
  /\ cli.answer = <<"Y">>
  /\ cli.pc = "exit"
  /\ result["first"] # {}
  /\ Issued("first", {"writeFile"}) # {}

\* the options of parseArguments that take the next token as their value
ValueOptions == {"-i", "--input", "-o", "--output", "-q", "--quality"}

SelfFlags == {"--self", "--in-place", "-s"}

\* position i of args is read as an option, not as the value of the option before it
RECURSIVE IsOptionAt(_, _)
IsOptionAt(args, i) ==
  \/ i = 1
  \/ i > 1 /\ IsOptionAt(args, i - 1) /\ args[i - 1] \notin ValueOptions
  \/ i > 2 /\ IsOptionAt(args, i - 2) /\ args[i - 2] \in ValueOptions

\* the positions where args gives one of the named options
Given(args, names) == {i \in 1..Len(args) : args[i] \in names /\ IsOptionAt(args, i)}

\* parseArguments has returned a result for the command line
Accepted == cli.pc \notin {"off", "start"} /\ parseArguments(cli.args).thrown = ""

\* C19: for an accepted argument list the returned selfReplace is the isSelfReplace
\* of the context configure creates from the returned input and output, and is the
\* isSelfReplace of the context once the CLI has called configure; with a
\* self-replace flag the returned output is the returned input.
C19_SelfReplaceAgrees ==
  Accepted =>
    LET parsed == parseArguments(cli.args)
    IN  /\ parsed.selfReplace
             = createOptimizationContext(parsed.input, parsed.output,
                                         resolveOptions(CliOptions(parsed))).isSelfReplace
        /\ pc["first"] \notin {"idle", "failed"} =>
             ctx["first"].isSelfReplace = parsed.selfReplace
        /\ Given(cli.args, SelfFlags) # {} =>
             parsed.selfReplace /\ parsed.output = parsed.input

\* C19 witness: no self-replace flag, an output typed differently from the input
\* that resolves to the same path, and configure called in self-replace mode.
C19_DetectedWithoutFlag ==
  /\ Accepted
  /\ Given(cli.args, SelfFlags) = {}
  /\ cli.parsed.selfReplace
  /\ cli.parsed.input # cli.parsed.output
  /\ pc["first"] = "done"
  /\ ctx["first"].isSelfReplace

InputFlags == {"--input", "-i"}

OutputFlags == {"--output", "-o"}

\* parseArguments has run on the command line
Parsed == cli.pc \notin {"off", "start"}

Refused(args) == parseArguments(args).thrown # ""

\* the value of the last option of args among names ("" when there is none or
\* no token follows it)
LastValue(args, names) ==
  LET at == Given(args, names)
  IN  IF at = {} THEN ""
      ELSE OrEmpty(ArgAt(args, (CHOOSE i \in at : \A j \in at : j <= i) + 1))

\* parseArguments rejects a list without an --input, and a list with neither a
\* self-replace flag nor an --output
RejectsMissing(args) ==
  /\ Given(args, InputFlags) = {} => Refused(args)
  /\ Given(args, SelfFlags) = {} /\ Given(args, OutputFlags) = {} => Refused(args)

\* C20 as stated: parseArguments rejects every argument list that has a
\* self-replace flag and an --output/-o followed by a value, whatever the value,
\* and every list without --input or, absent a self-replace flag, without --output.
C20_RejectsAnyOutputWithSelf ==
  Parsed =>
    /\ Given(cli.args, SelfFlags) # {}
          /\ (\E i \in Given(cli.args, OutputFlags) : ArgAt(cli.args, i + 1) # <<>>)
          => Refused(cli.args)
    /\ RejectsMissing(cli.args)

\* C20 amended: parseArguments rejects every argument list that has a
\* self-replace flag and whose --output/-o value in effect (that of the last
\* --output/-o) is not empty, in whatever order the flags come, and every list
\* without --input or, absent a self-replace flag, without --output; a rejected
\* list never reaches the prompt or configure.
C20_RejectsOutputWithSelf ==
  Parsed =>
    /\ Given(cli.args, SelfFlags) # {} /\ LastValue(cli.args, OutputFlags) # ""
          => Refused(cli.args)
    /\ RejectsMissing(cli.args)
    /\ Refused(cli.args) =>
          cli.pc = "exit" /\ cli.exitCode = 1 /\ pc["first"] = "idle"

\* C20 witness: a list with --input whose self-replace flag comes before its
\* --output value has been rejected for combining the two.
C20_SelfBeforeOutputRejected ==
  /\ cli.pc = "exit"
  /\ cli.printed = "The --self option cannot be used together with --output."
  /\ \E i \in Given(cli.args, SelfFlags) : \E j \in Given(cli.args, OutputFlags) : i < j
  /\ LastValue(cli.args, InputFlags) = "in"

\* the error runCli has caught, "" when nothing was thrown: parseArguments',
\* confirmSelfReplacing's or configure's
CliThrown ==
  IF parseArguments(cli.args).thrown # "" THEN parseArguments(cli.args).thrown
  ELSE IF NeedsConfirmation /\ ~cli.isTTY
  THEN "Self-replacing mode requires an interactive terminal"
  ELSE IF pc["first"] = "failed" THEN error["first"]
  ELSE ""

\* C21: the exit code is 0 while the CLI runs; once it has ended the exit code is 1
\* exactly when parseArguments, the confirmation or configure threw, and then the
\* error's message went to the error stream; otherwise the CLI printed either the
\* cancellation or the summary; the summary and the run's warnings are printed only
\* when configure has returned a Result, and no warning of the run is printed
\* before that.
C21_ExitCode ==
  cli.pc # "off" =>
    /\ cli.pc # "exit" => cli.exitCode = 0 /\ cli.printed = "" /\ cli.warnings = <<>>
    /\ warned["first"].console = <<>>
    /\ cli.pc = "exit" =>
         /\ cli.exitCode = IF CliThrown # "" THEN 1 ELSE 0
         /\ CliThrown # "" => cli.stream = "error" /\ cli.printed = CliThrown
         /\ CliThrown = "" =>
              /\ cli.stream = "output"
              /\ cli.printed \in {"summary", "Operation cancelled."}
         /\ cli.printed = "summary" <=> result["first"] # {}
         /\ cli.printed = "Operation cancelled." <=>
              cli.answer # <<>> /\ pc["first"] = "idle"
         /\ cli.printed # "summary" => cli.warnings = <<>>
         /\ cli.printed = "summary" => cli.warnings = ctx["first"].warningMessages

\* C21 witness: configure threw after the CLI had called it, and the CLI has ended
\* with exit code 1.
C21_ConfigureThrewInCli ==
  /\ cli.pc = "exit"
  /\ cli.exitCode = 1
  /\ pc["first"] = "failed"

\* C22: whatever the spelling of a supported extension, getDescriptorForExtension
\* returns the descriptor it returns for the lower-case spelling, and
\* isSupportedFormat answers as it does for the lower-case spelling.
C22_LookupIgnoresCase ==
  /\ registry.descriptor # <<>> =>
       registry.descriptor[1] = getDescriptorForExtension(ToLowerCase(registry.extension))
  /\ registry.supported # <<>> =>
       registry.supported[1] = isSupportedFormat(ToLowerCase(registry.extension))

\* the category the registry is to give an extension, "none" when it is to be absent
ExpectedCategory(extension) ==
  CASE extension \in {"png", "webp", "jpg", "jpeg", "avif"} -> "image"
    [] extension = "svg"                                   -> "vector"
    [] extension = "json"                                  -> "data"
    [] extension \in {"mp4", "webm"}                       -> "video"
    [] OTHER                                               -> "none"

\* C23: for the extension x a caller passes, isSupportedFormat(x) is TRUE exactly
\* when getDescriptorForExtension(x) returns a descriptor; a returned descriptor
\* has extension x and the category of x; and the lookup is absent for every
\* string that is not one of the nine lower-case extensions, "" included.
C23_SupportedIffDescriptor ==
  /\ registry.descriptor # <<>> =>
       IF ExpectedCategory(registry.extension) = "none"
       THEN registry.descriptor[1] = Undefined
       ELSE registry.descriptor[1] =
              [extension |-> registry.extension,
               category |-> ExpectedCategory(registry.extension)]
  /\ registry.supported # <<>> =>
       registry.supported[1] = (ExpectedCategory(registry.extension) # "none")
  /\ registry.descriptor # <<>> /\ registry.supported # <<>> =>
       registry.supported[1] = (registry.descriptor[1] # Undefined)

\* C23 witness: both functions were called for "webm" and answered with the video
\* descriptor and TRUE.
C23_VideoLookedUp ==
  /\ registry.extension = "webm"
  /\ registry.descriptor = <<[extension |-> "webm", category |-> "video"]>>
  /\ registry.supported = <<TRUE>>

\* C24: once a run that is not self-replacing has returned its Result, every
\* scanned relative path is a file under the output folder, holding either the
\* bytes the input file had or an adapter candidate strictly smaller than them.
C24_OutputMirrorsInput ==
  \A r \in Runs :
    result[r] # {} /\ ~ctx[r].isSelfReplace =>
      \A rel \in ctx[r].scannedFiles :
        LET source == Join(ctx[r].inputFolder, rel)
            destination == Join(ctx[r].outputFolder, rel)
        IN  /\ IsFile(destination)
            /\ \/ files[destination] = snapshot[r][source]
               \/ /\ source \in DOMAIN tasks[r]
                  /\ files[destination] = tasks[r][source].cand
                  /\ Len(tasks[r][source].cand) < Len(snapshot[r][source])

\* the context of the run that differs only in the value of verbose
Flipped(context) == [context EXCEPT !.options.verbose = ~@]

\* what a run delivers: the warnings handed to onWarning and to console.warn
Warnings(log) == [sink |-> log.sink, console |-> log.console, visits |-> log.visits]

\* the warning lists the adapter may answer with for the tasks that wait for it
PossibleWarnings(r) ==
  UNION {{outcome.warnings :
            outcome \in {o \in optimizeAsset(determineFormat(p),
                                              Relative(ctx[r].inputFolder, p),
                                              tasks[r][p].orig) : o.kind # "throw"}} :
           p \in {q \in DOMAIN tasks[r] : tasks[r][q].pc = "optimize"}}

\* C25: verbose has no behavioural effect. In every state of a run, every step
\* the run can take next computes, from the context that differs only in the
\* value of verbose and the same filesystem state and adapter outcome, the same
\* task positions, the same destinations, the same cleanup decision, the same
\* delivered warnings, the same context but for verbose and the same Result;
\* verbose decides only whether diagnostic lines are traced.
C25_VerboseOnlyTraces ==
  \A r \in Runs :
    pc[r] # "idle" =>
      LET c == ctx[r]
          f == Flipped(ctx[r])
      IN  /\ SkipsCleanup(f) = SkipsCleanup(c)
          /\ copyAssetStart(f) = copyAssetStart(c)
          /\ buildOptimizeResult(f) = buildOptimizeResult(c)
          /\ \A p \in DOMAIN files \cup DOMAIN tasks[r] :
                /\ processAssetStart(f, p) = processAssetStart(c, p)
                /\ Destination(f, p) = Destination(c, p)
          /\ \A t \in pending[r] :
                Collected(f, ReadDirEntries(t.dir) \ dirs)
                  = Flipped(Collected(c, ReadDirEntries(t.dir) \ dirs))
          /\ \A p \in DOMAIN tasks[r] :
                Aggregated(f, Len(tasks[r][p].orig), Len(tasks[r][p].opt))
                  = Flipped(Aggregated(c, Len(tasks[r][p].orig), Len(tasks[r][p].opt)))
          /\ \A messages \in PossibleWarnings(r) :
                /\ recordWarnings(f, messages) = Flipped(recordWarnings(c, messages))
                /\ Warnings(DeliveredAll(f, warned[r], messages))
                     = Warnings(DeliveredAll(c, warned[r], messages))
          /\ Warnings(Traced(f, warned[r], PreparingLines(f)))
               = Warnings(Traced(c, warned[r], PreparingLines(c)))
          /\ (warned[r].trace # EmptyBag) => c.options.verbose
          /\ result[r] # {} => result[r] = {buildOptimizeResult(f)}

\* C25 witness: a run with verbose set traced its lines, wrote an optimized
\* file, delivered a warning and returned its Result.
C25_VerboseRunReturned ==
  \E r \in Runs :
    /\ ctx[r].options.verbose
    /\ result[r] # {}
    /\ warned[r].trace # EmptyBag
    /\ \E p \in DOMAIN tasks[r] : tasks[r][p].pc = "done" /\ tasks[r][p].opt # <<>>
    /\ ctx[r].warningMessages # <<>>

\* the supported files the tree held when run r was called
SupportedFiles(r) == {p \in DOMAIN snapshot[r] : determineFormat(p) # Undefined}

\* C26: in a self-replace run no supported file is ever missing or larger than
\* it was, and it holds either its original bytes or a strictly smaller
\* candidate; once the run has returned, every supported file holds the
\* adapter's candidate if that candidate was strictly smaller than the original
\* bytes and holds exactly its original bytes otherwise.
C26_SelfReplaceKeepsSmaller ==
  \A r \in Runs :
    pc[r] # "idle" /\ ctx[r].isSelfReplace =>
      \A p \in SupportedFiles(r) :
        /\ IsFile(p)
        /\ Len(files[p]) <= Len(snapshot[r][p])
        /\ \/ files[p] = snapshot[r][p]
           \/ /\ p \in DOMAIN tasks[r]
              /\ files[p] = tasks[r][p].cand
              /\ Len(tasks[r][p].cand) < Len(snapshot[r][p])
        /\ result[r] # {} =>
             /\ p \in DOMAIN tasks[r]
             /\ tasks[r][p].pc = "done"
             /\ files[p] = IF Len(tasks[r][p].cand) < Len(snapshot[r][p])
                           THEN tasks[r][p].cand ELSE snapshot[r][p]

\* C26 witness: a self-replace run returned with one supported file replaced by
\* a strictly smaller candidate and another one, whose candidate was not
\* smaller, holding its original bytes.
C26_ReplacedAndKept ==
  \E r \in Runs :
    /\ result[r] # {}
    /\ ctx[r].isSelfReplace
    /\ \E p, q \in SupportedFiles(r) :
         /\ Len(files[p]) < Len(snapshot[r][p])
         /\ Len(tasks[r][q].cand) >= Len(snapshot[r][q])
         /\ files[q] = snapshot[r][q]

\* the avif encoder of an ended compressImage call threw
AvifFailed ==
  /\ adapter.category = "image"
  /\ adapter.ended # <<>>
  /\ adapter.format = "avif"
  /\ adapter.encoders.sharp = "ok"
  /\ ~adapter.encoders.first.ok

\* C27: when the avif encoder fails, compressImage returns without throwing,
\* its first warning is the one naming the WebP fallback, and its second and
\* last encoder call is the webp encoder at the quality of the first; when that
\* call answers, its buffer is returned after that one warning; when it fails
\* too, a compression-failure warning follows and the original bytes are
\* returned.
C27_AvifFallsBackToWebp ==
  AvifFailed =>
    LET ended == adapter.ended[1]
        fallback == Message("avif-fallback", <<>>, "", adapter.encoders.first.detail)
    IN  /\ ended.kind = "return"
        /\ ended.steps = <<Encode("avif", adapter.quality), Encode("webp", adapter.quality)>>
        /\ IF adapter.encoders.retry.ok
           THEN /\ ended.warnings = <<fallback>>
                /\ ended.data = adapter.encoders.retry.data
           ELSE /\ ended.warnings =
                     <<fallback,
                       Message("compress-failed", <<>>, "avif", adapter.encoders.retry.detail)>>
                /\ ended.data = adapter.data

\* C27 witness: both the avif and the webp encoder failed for a file that is not
\* empty, and the call ended with two warnings.
C27_BothEncodersFailed ==
  /\ AvifFailed
  /\ ~adapter.encoders.retry.ok
  /\ adapter.data # <<>>
  /\ Len(adapter.ended[1].warnings) = 2

\* C28: a video call that finds VideoEncoder or VideoDecoder missing records
\* exactly one warning, the one about WebCodecs for its file, returns the
\* original bytes and makes no other call: the module is not loaded and no
\* conversion step is attempted. In every video call the capability check comes
\* before the module load.
C28_NoCodecsNoLoad ==
  adapter.category = "video" /\ adapter.ended # <<>> =>
    LET ended == adapter.ended[1]
    IN  /\ ~(adapter.runtime.videoEncoder /\ adapter.runtime.videoDecoder) =>
             /\ ended.kind = "return"
             /\ ended.warnings = <<Message("no-webcodecs", adapter.rel, "", "")>>
             /\ ended.data = adapter.data
             /\ ended.steps = <<"hasWebCodecs">>
        /\ \A i \in 1..Len(ended.steps) :
             ended.steps[i] = "import" =>
               \E j \in 1..(i - 1) : ended.steps[j] = "hasWebCodecs"

\* C28 witness: a call for a video that is not empty ended in a runtime that has
\* VideoEncoder but no VideoDecoder, and whose module would have loaded and
\* converted the file.
C28_DecoderMissing ==
  /\ adapter.category = "video"
  /\ adapter.ended # <<>>
  /\ adapter.runtime.videoEncoder
  /\ ~adapter.runtime.videoDecoder
  /\ adapter.runtime.module = "complete"
  /\ adapter.runtime.buffer = <<<<>>>>
  /\ adapter.data # <<>>

\* an ended video call found the codecs, and some stage of the transcoding
\* failed: the module, the pipeline, the conversion, or an output buffer that is
\* absent or of zero length
TranscodingFailed ==
  /\ adapter.category = "video"
  /\ adapter.ended # <<>>
  /\ hasWebCodecs(adapter.runtime)
  /\ \/ adapter.runtime.module # "complete"
     \/ adapter.runtime.pipeline = "throws"
     \/ adapter.runtime.init # "valid"
     \/ adapter.runtime.execute = "throws"
     \/ adapter.runtime.buffer \in {<<>>, <<<<>>>>}

\* C29: every failure at any stage of transcoding a video records one warning
\* naming the file, and the bytes processAsset then writes are the original
\* bytes; a video that is not empty is never written as an empty file.
C29_VideoFailureKeepsOriginal ==
  TranscodingFailed =>
    LET ended == adapter.ended[1]
        written == SizeGate(adapter.data, ended.data)
    IN  /\ ended.kind = "return"
        /\ Len(ended.warnings) = 1
        /\ \A i \in 1..Len(ended.warnings) : ended.warnings[i].path = adapter.rel
        /\ written = adapter.data
        /\ adapter.data # <<>> => written # <<>>

\* the files below the input folder when run r was called
InputFiles(r) ==
  {p \in DOMAIN snapshot[r] :
     Len(p) > Len(ctx[r].inputFolder) /\ SubSeq(p, 1, Len(ctx[r].inputFolder)) = ctx[r].inputFolder}

\* the writes and copies run r has made
Writes(r) == {o \in BagToSet(ops[r]) : o.op \in {"writeFile", "copyFile"}}

\* C30: in each pass no file is visited twice, and once the pass has settled
\* every file the input tree held has been visited once; in pass 2 no two tasks
\* of a run have the same output path and no output path is written or copied
\* to twice.
C30_VisitedOnce ==
  \A r \in Runs :
    pc[r] \notin {"idle", "stat", "failed"} =>
      /\ \A v \in BagToSet(warned[r].visits) : CopiesIn(v, warned[r].visits) = 1
      /\ pc[r] # "pass1" =>
           \A p \in InputFiles(r) : CopiesIn(Visit(TRUE, p), warned[r].visits) = 1
      /\ pc[r] = "done" =>
           \A p \in InputFiles(r) : CopiesIn(Visit(FALSE, p), warned[r].visits) = 1
      /\ \A p, q \in DOMAIN tasks[r] :
           p # q => Destination(ctx[r], p) # Destination(ctx[r], q)
      /\ \A o \in Writes(r) :
           /\ CopiesIn(o, ops[r]) = 1
           /\ \A other \in Writes(r) : other.path = o.path => other = o

\* the messages in a sequence of warnings
Range(messages) == {messages[i] : i \in 1..Len(messages)}

\* the output folder of run r lies below its input folder
OutputNested(r) ==
  Len(ctx[r].outputFolder) > Len(ctx[r].inputFolder)
    /\ IsUnder(ctx[r].outputFolder, ctx[r].inputFolder)

\* C31: the totals, the counts and the set of warnings of a Result are a
\* function of the input tree the run was called on and of what the adapters
\* answered for its files, whatever the interleaving of the tasks: the sum of the
\* original sizes of the supported files, the sum of their chosen sizes, the
\* number of files, of supported files and of supported files whose chosen size
\* is strictly smaller, and the warnings of the adapter calls.
C31_ResultDetermined ==
  \A r \in Runs : \A res \in result[r] :
    LET chosen == [p \in SupportedOf(r) |-> SizeGate(snapshot[r][p], CandidateOf(r, p))]
    IN  /\ res.totalOriginalSize = Sum([p \in SupportedOf(r) |-> Len(snapshot[r][p])])
        /\ res.totalOptimizedSize = Sum([p \in SupportedOf(r) |-> Len(chosen[p])])
        /\ res.filesScanned = Cardinality(InputFilesOf(r))
        /\ res.filesProcessed = Cardinality(SupportedOf(r))
        /\ res.filesOptimized =
             Cardinality({p \in SupportedOf(r) : Len(chosen[p]) < Len(snapshot[r][p])})
        /\ Range(res.warnings) =
             UNION {Range(tasks[r][p].warnings) : p \in SupportedOf(r) \cap DOMAIN tasks[r]}

\* C32: in every state processedFiles is the number of files whose write has
\* completed and whose totals have been added, totalOriginalSize and
\* totalOptimizedSize are the sums over exactly those files, optimizedFiles is
\* the number of them whose chosen size is smaller and so at most processedFiles,
\* and a file is counted only after its fs.writeFile was issued with the chosen
\* bytes.
C32_AggregatedAfterWrite ==
  \A r \in Runs :
    /\ OwnTotals(r)
    /\ ctx[r].optimizedFiles <= ctx[r].processedFiles
    /\ \A p \in AggregatedTasks(r) :
         \E o \in Issued(r, {"writeFile"}) :
           /\ o.src = p
           /\ o.path = Destination(ctx[r], p)
           /\ o.data = tasks[r][p].opt

\* C32 witness: one file has been written and counted while the write of another
\* has completed and its totals have not been added yet.
C32_WrittenNotYetCounted ==
  \E r \in Runs :
    /\ ctx[r].processedFiles = 1
    /\ ctx[r].totalOriginalSize > 0
    /\ \E p \in DOMAIN tasks[r] : tasks[r][p].pc = "aggregate"

\* the paths the cleanup of run r is to try: outputRoot/relPath for the scanned
\* relative paths
CleanupTargets(r) == {Join(ctx[r].outputFolder, rel) : rel \in ctx[r].scannedFiles}

\* the cleanup looks only at its targets: every fs.unlink of a run is issued by
\* a run that is not self-replacing, once, on one of its targets; when pass 2
\* has started every target has been tried; and a run issues no call that
\* deletes but fs.unlink
UnlinksOnlyTargets ==
  \A r \in Runs :
    /\ \A o \in Issued(r, {"unlink"}) :
         /\ ~ctx[r].isSelfReplace
         /\ o.path \in CleanupTargets(r)
         /\ CopiesIn(o, ops[r]) = 1
    /\ pc[r] \in {"pass2", "done"} /\ ~ctx[r].isSelfReplace =>
         {o.path : o \in Issued(r, {"unlink"})} = CleanupTargets(r)
    /\ \A o \in BagToSet(ops[r]) :
         o.op \in {"stat", "readdir", "mkdir", "unlink", "readFile", "writeFile", "copyFile"}

\* a step of configure deletes no directory, and the only file it deletes is the
\* target of the fs.unlink it issues
DeletesOnlyTarget ==
  /\ dirs \subseteq dirs'
  /\ \A p \in (DOMAIN files) \ (DOMAIN files') :
       ops' # ops =>
       \E r \in Runs :
         /\ p \in CleanupTargets(r)
         /\ CopiesIn(Op("unlink", p, <<>>, <<>>), ops'[r])
              = CopiesIn(Op("unlink", p, <<>>, <<>>), ops[r]) + 1

\* C33: the cleanup of a run that is not self-replacing issues fs.unlink only on
\* the paths outputRoot/relPath with relPath in scannedFiles, one attempt for
\* every scanned path; configure deletes no other file and no directory.
C33_CleanupDeletesScannedOnly == [](UnlinksOnlyTargets) /\ [][DeletesOnlyTarget]_vars

\* C33 witness: the cleanup of a run whose output folder lies apart from its
\* input folder has removed a file an earlier run wrote there, and pass 2 has
\* started.
C33_OutputFileRemoved ==
  \E r \in Runs :
    /\ pc[r] = "pass2"
    /\ ~ctx[r].isSelfReplace
    /\ ~OutputNested(r)
    /\ \E p \in (DOMAIN snapshot[r]) \ (DOMAIN files) :
         p \in CleanupTargets(r) /\ ~IsUnder(p, ctx[r].inputFolder)

\* what C34 asks of run r once one of its fs.unlink calls has thrown
FailedDeleteIgnored(r) ==
  /\ pc[r] = "failed" => error[r] \in {"ENOENT", "adapter error"}
  /\ pc[r] \in {"pass2", "done", "failed"} =>
       {o.path : o \in Issued(r, {"unlink"})} = CleanupTargets(r)
  /\ Range(ctx[r].warningMessages)
       \subseteq UNION {Range(tasks[r][p].warnings) : p \in DOMAIN tasks[r]}
  /\ ResultAsAlone(r)

\* C34: a fs.unlink of the cleanup that throws, for a target that does not
\* exist or cannot be removed, does not fail the run and records no warning;
\* every other scanned path is still tried and pass 2 runs; the Result is the
\* one of the run whose deletes succeeded or were unnecessary, the function of
\* the tree and the adapter answers.
C34_FailedDeleteIgnored ==
  \A r \in Runs : warned[r].refused # {} => FailedDeleteIgnored(r)

\* run r has settled: it returned its Result or it threw
Settled(r) == pc[r] \in {"done", "failed"}

\* every file discovered in pass 1 has been handled to completion in pass 2: a
\* supported file written, another one copied, or skipped in self-replace mode;
\* and no directory listing and no per-file task of the run is pending
HandledAll(r) ==
  /\ pending[r] = {}
  /\ \A p \in DOMAIN tasks[r] : tasks[r][p].pc \in Resolved
  /\ \A rel \in ctx[r].scannedFiles :
       LET p == Join(ctx[r].inputFolder, rel)
       IN  /\ p \in DOMAIN tasks[r]
           /\ IF determineFormat(p) # Undefined
              THEN \E o \in Issued(r, {"writeFile"}) : o.src = p
              ELSE IF ctx[r].isSelfReplace
              THEN tasks[r][p].pc = "skipped"
              ELSE \E o \in Issued(r, {"copyFile"}) : o.src = p

\* C35: an invocation that has been called settles, and when it has returned a
\* Result every file discovered in pass 1 has been handled to completion in
\* pass 2 and none of its tasks is pending.
C35_TerminatesHandled ==
  /\ \A r \in {"first"} : (pc[r] # "idle") ~> Settled(r)
  /\ [](\A r \in Runs : result[r] # {} => HandledAll(r))

\* C36: a run that is not self-replacing issues no fs.unlink, fs.writeFile or
\* fs.copyFile whose target is one of the files below its input folder,
\* wherever its output folder lies.
C36_InputFilesUntouched ==
  \A r \in Runs :
    pc[r] # "idle" /\ ~ctx[r].isSelfReplace =>
      \A o \in Issued(r, {"unlink", "writeFile", "copyFile"}) : o.path \notin InputFilesOf(r)

\* a step leaves the filesystem calls and the context of every settled run as
\* they are
QuietOnceSettled ==
  \A r \in Runs : Settled(r) => ops'[r] = ops[r] /\ ctx'[r] = ctx[r]

\* C37: once an invocation has returned its Result or has thrown, it issues no
\* further filesystem call and changes its context no more.
C37_QuietOnceSettled == [][QuietOnceSettled]_vars

\* the files of a tree below a folder
TreeBelow(tree, folder) == [p \in {q \in DOMAIN tree : IsUnder(q, folder)} |-> tree[p]]

\* the totals and counts of a Result
TotalsOf(res) ==
  <<res.totalOriginalSize, res.totalOptimizedSize, res.totalSavings, res.totalSavingsPercent,
    res.filesScanned, res.filesProcessed, res.filesOptimized>>

\* both invocations have returned; the second was made with the arguments of the
\* first, on disjoint folders, on the input tree the first was made on, and its
\* adapters answered as they did in the first
RunAgain ==
  /\ pc["first"] = "done" /\ pc["second"] = "done"
  /\ ctx["second"].providedInput = ctx["first"].providedInput
  /\ ctx["second"].providedOutput = ctx["first"].providedOutput
  /\ ctx["second"].options = ctx["first"].options
  /\ ~ctx["first"].isSelfReplace
  /\ ~IsUnder(ctx["first"].outputFolder, ctx["first"].inputFolder)
  /\ ~IsUnder(ctx["first"].inputFolder, ctx["first"].outputFolder)
  /\ TreeBelow(snapshot["second"], ctx["first"].inputFolder)
       = TreeBelow(snapshot["first"], ctx["first"].inputFolder)
  /\ \A p \in SupportedOf("first") : CandidateOf("second", p) = CandidateOf("first", p)

\* C38: a second invocation on disjoint folders, with the arguments, the input
\* tree and the adapter answers of the first, leaves the output tree as the first
\* left it and returns the totals and counts the first returned.
C38_RunAgainIdempotent ==
  RunAgain =>
    /\ TreeBelow(files, ctx["second"].outputFolder)
         = TreeBelow(snapshot["second"], ctx["second"].outputFolder)
    /\ \A a \in result["first"], b \in result["second"] : TotalsOf(a) = TotalsOf(b)

\* the second invocation has unlinked, rewritten and copied what the first left
C38_RanAgain ==
  /\ RunAgain
  /\ result["first"] # {} /\ result["second"] # {}
  /\ \A a \in result["first"] : a.filesOptimized >= 1
  /\ Issued("second", {"unlink"}) # {}
  /\ Issued("second", {"writeFile"}) # {}
  /\ Issued("second", {"copyFile"}) # {}

====
